---- MODULE Spec2Model ----
(***************************************************************************)
(* Verification model of the orderflow engine: the L2 order book           *)
(* (applySnapshot / applyDepthUpdate / applyDelta), the metric broadcast    *)
(* throttle (broadcastMetrics), the data-quality gate (runGate) and the     *)
(* per-symbol actor (SymbolActor.enqueue / processQueue / onMetrics).       *)
(*                                                                         *)
(* Each subsystem has its own specification over the shared variables:      *)
(*   SpecBook, SpecBroadcast, SpecGate, SpecActor.                          *)
(* The variables of the other subsystems stay at their initial value.       *)
(***************************************************************************)
EXTENDS Integers, Sequences, FiniteSets, TLC

VARIABLES
    ob,              \* OrderbookState of one symbol
    call,            \* history: the last applySnapshot / applyDepthUpdate call
    now,             \* Date.now()
    lastBroadcastTs, \* SymbolMeta.lastBroadcastTs per symbol
    broadcasts,      \* history: the broadcasts that passed the throttle, per symbol
    gateInput,       \* RunGateInput handed to runGate
    gateCfg,         \* GateConfig handed to runGate
    gateResult,      \* GateResult returned by runGate
    queue,           \* SymbolActor.queue
    processing,      \* SymbolActor.processing
    immediates,      \* pending setImmediate callbacks of the actor
    runs,            \* processQueue invocations that have not settled their effects
    enqueued,        \* history: envelope ids in enqueue order
    processed,       \* history: envelope ids in the order the actor shifted them
    nextId,          \* id given to the next envelope
    executionSymbols,    \* Orchestrator.executionSymbols, in insertion order
    actors,              \* Orchestrator.actors: symbol -> index in instances, 0: none
    instances,           \* every SymbolActor created: symbol, queue, position in processQueue
    realizedPnlBySymbol, \* keys of Orchestrator.realizedPnlBySymbol
    decisionLedger,      \* Orchestrator.decisionLedger: symbol and canonical_time_ms
    orchNow,             \* canonical_time_ms of the last ingested metrics input
    setCalls,            \* the setExecutionSymbols calls in progress
    orchTrace,           \* history: effects of the last ingest call
    immediateQueue,      \* actor instances whose setImmediate callback is pending, in order
    phase,               \* phase of the event loop: "poll" or "check"
    setCallCount,        \* number of setExecutionSymbols calls made so far
    orchBudget,          \* how many inputs and setExecutionSymbols calls the environment makes
    symbolState,         \* SymbolActor.state
    lastDeltaZ,          \* SymbolActor.lastDeltaZ
    lastPrintsPerSecond, \* SymbolActor.lastPrintsPerSecond
    cooldownConfig,      \* SymbolActorDeps.cooldownConfig
    decision,            \* history: the last call of DecisionEngine.evaluate and its result
    exits,               \* history: the last exit action and the last close of a position
    stateEvents,         \* number of envelopes the actor has handled
    logger,              \* OrchestratorLogger: queue length, flush state, drop counters
    replay,              \* ReplayRunner: the log, the run in progress and the results
    snap,                \* fetchSnapshot: clock, globalBackoffUntil, symbolMeta, requests
    exec,                \* executeActions: connector flags, the await in progress, calls made
    conn,                \* ExecutionConnector: user stream, reconnect in progress, events emitted
    logq                 \* OrchestratorLogger: queue, streams and pending callbacks

bookVars == <<ob, call>>
bcastVars == <<now, lastBroadcastTs, broadcasts>>
gateVars == <<gateInput, gateCfg, gateResult>>
actorVars == <<queue, processing, immediates, runs, enqueued, processed, nextId>>
orchVars == <<executionSymbols, actors, instances, realizedPnlBySymbol, decisionLedger,
              orchNow, setCalls, orchTrace, immediateQueue, phase, setCallCount, orchBudget>>
stateVars == <<symbolState, lastDeltaZ, lastPrintsPerSecond, cooldownConfig, decision, exits,
               stateEvents>>
loggerVars == <<logger>>
replayVars == <<replay>>
snapVars == <<snap>>
execVars == <<exec>>
connVars == <<conn>>
logQueueVars == <<logq>>
extVars == <<orchVars, stateVars, loggerVars, replayVars, snapVars, execVars, connVars, logQueueVars>>
baseVars == <<bookVars, bcastVars, gateVars, actorVars>>
notOrchVars == <<baseVars, stateVars, loggerVars, replayVars, snapVars, execVars, connVars, logQueueVars>>
notLoggedOrchVars == <<baseVars, stateVars, replayVars, snapVars, execVars, connVars, logQueueVars>>
notStateVars == <<baseVars, orchVars, loggerVars, replayVars, snapVars, execVars, connVars, logQueueVars>>
notReplayedStateVars == <<baseVars, orchVars, loggerVars, snapVars, execVars, connVars, logQueueVars>>
notSnapVars == <<baseVars, orchVars, stateVars, loggerVars, replayVars, execVars, connVars, logQueueVars>>
notExecVars == <<baseVars, orchVars, stateVars, loggerVars, replayVars, snapVars, connVars, logQueueVars>>
notConnVars == <<baseVars, orchVars, stateVars, loggerVars, replayVars, snapVars, execVars, logQueueVars>>
notLogQueueVars == <<baseVars, orchVars, stateVars, loggerVars, replayVars, snapVars, execVars, connVars>>
notReplayVars == <<baseVars, orchVars, stateVars, loggerVars, snapVars, execVars, connVars, logQueueVars>>
vars == <<ob, call, now, lastBroadcastTs, broadcasts, gateInput, gateCfg, gateResult,
          queue, processing, immediates, runs, enqueued, processed, nextId, extVars>>

(***************************************************************************)
(* Order book                                                              *)
(***************************************************************************)

\* Allow gaps up to 100 sequence IDs before triggering resync
MAX_GAP_TOLERANCE == 100

\* buffer.length > 1000 drops the oldest buffered update
BUFFER_LIMIT == 1000

\* Bound of the book model: applyDepthUpdate calls, as counted by stats
MaxBookCalls == 2

\* Sequence ids of depth messages: 1, and from lastUpdateId = 1 the last start id
\* inside the tolerated gap and the first one past it
DiffIds == {1, MAX_GAP_TOLERANCE + 2, MAX_GAP_TOLERANCE + 3}

\* lastUpdateId of REST snapshots
SnapshotIds == {0, 1}

\* Decimal strings as they cross the wire
BidPriceStrs == {"10"}
AskPriceStrs == {"11"}
QtyStrs == {"0", "1", "-1"}

\* parseFloat on the wire strings of the model
parseFloat(s) ==
    CASE s = "0" -> 0
      [] s = "1" -> 1
      [] s = "-1" -> -1
      [] s = "10" -> 10
      [] s = "11" -> 11

\* [priceStr, qtyStr][] of a depth message or a snapshot: no level or one level
LevelLists(priceStrs) == {<< >>} \cup {<<l>> : l \in priceStrs \X QtyStrs}

\* { U, u, b, a } of a depthUpdate message, with levels on one side at most
DepthUpdates ==
    {d \in [U : DiffIds, u : DiffIds, b : LevelLists(BidPriceStrs), a : LevelLists(AskPriceStrs)] :
        d.b = << >> \/ d.a = << >>}

\* { lastUpdateId, bids, asks } of a REST snapshot
DepthCaches ==
    [lastUpdateId : SnapshotIds, bids : LevelLists(BidPriceStrs), asks : LevelLists(AskPriceStrs)]

\* Map<number, number> as a function on the stored prices
EmptyMap == [p \in {} |-> 0]
MapSet(m, k, v) == [p \in (DOMAIN m) \cup {k} |-> IF p = k THEN v ELSE m[p]]
MapDelete(m, k) == [p \in (DOMAIN m) \ {k} |-> m[p]]

createOrderbookState ==
    [lastUpdateId |-> 0,
     bids |-> EmptyMap,
     asks |-> EmptyMap,
     uiState |-> "UNSEEDED",
     buffer |-> << >>,
     stats |-> [applied |-> 0, dropped |-> 0, buffered |-> 0, desyncs |-> 0]]

\* for (const [p, q] of levels) { qty === 0 ? delete(price) : set(price, qty) }
RECURSIVE DeltaSide(_, _)
DeltaSide(m, levels) ==
    IF levels = << >> THEN m
    ELSE LET price == parseFloat(Head(levels)[1])
             qty == parseFloat(Head(levels)[2])
         IN DeltaSide(IF qty = 0 THEN MapDelete(m, price) ELSE MapSet(m, price, qty),
                      Tail(levels))

\* Mutant of applyDelta: the book id is taken from the first id of the update
applyDeltaFirstId(state, update) ==
    [state EXCEPT
        !.bids = DeltaSide(state.bids, update.b),
        !.asks = DeltaSide(state.asks, update.a),
        !.lastUpdateId = update.U,
        !.stats.applied = @ + 1,
        !.uiState = IF @ = "STALE" THEN "LIVE" ELSE @]

applyDelta(state, update) ==
    [state EXCEPT
        !.bids = DeltaSide(state.bids, update.b),
        !.asks = DeltaSide(state.asks, update.a),
        !.lastUpdateId = update.u,
        !.stats.applied = @ + 1,
        !.uiState = IF @ = "STALE" THEN "LIVE" ELSE @]

\* Mutant of Buffering: a resyncing book is not buffered
BufferingUnseededOnly(state) == state.lastUpdateId = 0 \/ state.uiState = "UNSEEDED"

\* 1. If UNSEEDED or RESYNCING, buffer it
Buffering(state) ==
    state.lastUpdateId = 0 \/ state.uiState = "RESYNCING" \/ state.uiState = "UNSEEDED"

\* Mutant of SequenceOk: any positive gap is accepted
SequenceOkAnyGap(lastUpdateId, update) ==
    LET expectedNext == lastUpdateId + 1
        gap == update.U - expectedNext
    IN \/ gap <= 0 /\ update.u >= expectedNext
       \/ gap > 0

\* Mutant of SequenceOk: the tolerance is one id too wide
SequenceOkOffByOne(lastUpdateId, update) ==
    LET expectedNext == lastUpdateId + 1
        gap == update.U - expectedNext
    IN \/ gap <= 0 /\ update.u >= expectedNext
       \/ gap > 0 /\ gap <= MAX_GAP_TOLERANCE + 1

\* 3. gap <= 0 && u >= expectedNext, or 0 < gap <= MAX_GAP_TOLERANCE
SequenceOk(lastUpdateId, update) ==
    LET expectedNext == lastUpdateId + 1
        gap == update.U - expectedNext
    IN \/ gap <= 0 /\ update.u >= expectedNext
       \/ gap > 0 /\ gap <= MAX_GAP_TOLERANCE

\* applyDepthUpdate: the new state, the boolean it returns and the branch taken
applyDepthUpdate(state, update) ==
    IF Buffering(state)
    THEN LET pushed == Append(state.buffer, update)
         IN [state |-> [state EXCEPT
                          !.buffer = IF Len(pushed) > BUFFER_LIMIT THEN Tail(pushed) ELSE pushed,
                          !.stats.buffered = @ + 1],
             ret |-> TRUE, branch |-> "buffered"]
    ELSE IF update.u <= state.lastUpdateId
    THEN [state |-> [state EXCEPT !.stats.dropped = @ + 1],
          ret |-> TRUE, branch |-> "dropped"]
    ELSE IF SequenceOk(state.lastUpdateId, update)
    THEN [state |-> applyDelta(state, update), ret |-> TRUE, branch |-> "applied"]
    ELSE [state |-> [state EXCEPT !.stats.desyncs = @ + 1],
          ret |-> FALSE, branch |-> "desync"]

\* snapshot levels: only q > 0 is stored
RECURSIVE SnapshotSide(_, _)
SnapshotSide(m, levels) ==
    IF levels = << >> THEN m
    ELSE LET price == parseFloat(Head(levels)[1])
             q == parseFloat(Head(levels)[2])
         IN SnapshotSide(IF q > 0 THEN MapSet(m, price, q) ELSE m, Tail(levels))

RECURSIVE ReplayBuffer(_, _)
ReplayBuffer(state, updates) ==
    IF updates = << >> THEN state
    ELSE ReplayBuffer(applyDepthUpdate(state, Head(updates)).state, Tail(updates))

\* Mutant of applySnapshot: every buffered update is replayed
applySnapshotNoFilter(state, snapshot) ==
    LET loaded == [state EXCEPT
                      !.bids = SnapshotSide(EmptyMap, snapshot.bids),
                      !.asks = SnapshotSide(EmptyMap, snapshot.asks),
                      !.lastUpdateId = snapshot.lastUpdateId,
                      !.uiState = "LIVE"]
    IN IF Len(state.buffer) > 0
       THEN ReplayBuffer([loaded EXCEPT !.buffer = << >>], state.buffer)
       ELSE loaded

applySnapshot(state, snapshot) ==
    LET loaded == [state EXCEPT
                      !.bids = SnapshotSide(EmptyMap, snapshot.bids),
                      !.asks = SnapshotSide(EmptyMap, snapshot.asks),
                      !.lastUpdateId = snapshot.lastUpdateId,
                      !.uiState = "LIVE"]
        validUpdates == SelectSeq(state.buffer, LAMBDA x : x.u > loaded.lastUpdateId)
    IN IF Len(state.buffer) > 0
       THEN ReplayBuffer([loaded EXCEPT !.buffer = << >>], validUpdates)
       ELSE loaded

BookCalls(state) ==
    state.stats.applied + state.stats.dropped + state.stats.buffered + state.stats.desyncs

NoCall == [branch |-> "none", U |-> 0, u |-> 0, ret |-> TRUE, prevId |-> 0,
           prevUi |-> "UNSEEDED"]

\* handleMsg (depthUpdate): applyDepthUpdate(ob, d). The model buffers one
\* update at a time.
ApplyDepthUpdate(update) ==
    /\ BookCalls(ob) < MaxBookCalls
    /\ Buffering(ob) => ob.buffer = << >>
    /\ LET r == applyDepthUpdate(ob, update)
       IN /\ ob' = r.state
          /\ call' = [branch |-> r.branch, U |-> update.U, u |-> update.u, ret |-> r.ret,
                      prevId |-> ob.lastUpdateId, prevUi |-> ob.uiState]
    /\ UNCHANGED <<bcastVars, gateVars, actorVars, extVars>>

\* fetchSnapshot, success: applySnapshot(ob, data)
ApplySnapshot(snapshot) ==
    /\ LET s == applySnapshot(ob, snapshot)
       IN /\ BookCalls(s) <= MaxBookCalls
          /\ ob' = s
    /\ call' = [branch |-> "snapshot", U |-> 0, u |-> snapshot.lastUpdateId, ret |-> TRUE,
                prevId |-> ob.lastUpdateId, prevUi |-> ob.uiState]
    /\ UNCHANGED <<bcastVars, gateVars, actorVars, extVars>>

\* fetchSnapshot: ob.uiState = 'RESYNCING' before the request, 'STALE' or
\* 'RESYNCING' after a failed one
FetchSnapshotMark(ui) ==
    /\ ob.uiState # ui
    /\ ob' = [ob EXCEPT !.uiState = ui]
    /\ call' = [NoCall EXCEPT !.branch = "mark", !.prevId = ob.lastUpdateId,
                              !.prevUi = ob.uiState]
    /\ UNCHANGED <<bcastVars, gateVars, actorVars, extVars>>

BookIdle == ob = createOrderbookState /\ call = NoCall
BcastIdle == now = 0 /\ lastBroadcastTs = << >> /\ broadcasts = << >>
GateIdle == gateInput = << >> /\ gateCfg = << >> /\ gateResult = << >>
ActorIdle ==
    /\ queue = << >> /\ processing = FALSE /\ immediates = 0 /\ runs = << >>
    /\ enqueued = << >> /\ processed = << >> /\ nextId = 1

OrchIdle ==
    /\ executionSymbols = << >> /\ actors = << >> /\ instances = << >>
    /\ realizedPnlBySymbol = {} /\ decisionLedger = << >> /\ orchNow = 0
    /\ setCalls = << >> /\ orchTrace = << >> /\ immediateQueue = << >> /\ phase = ""
    /\ setCallCount = 0 /\ orchBudget = << >>
StateIdle ==
    /\ symbolState = << >> /\ lastDeltaZ = << >> /\ lastPrintsPerSecond = << >>
    /\ cooldownConfig = << >> /\ decision = << >> /\ exits = << >> /\ stateEvents = 0
LoggerIdle == logger = << >>
ReplayIdle == replay = << >>
SnapIdle == snap = << >>
ExecIdle == exec = << >>
ConnIdle == conn = << >>
LogQueueIdle == logq = << >>
ExtIdle == OrchIdle /\ StateIdle /\ LoggerIdle /\ ReplayIdle /\ SnapIdle /\ ExecIdle /\ ConnIdle /\ LogQueueIdle
BaseIdle == BookIdle /\ BcastIdle /\ GateIdle /\ ActorIdle
NotOrchIdle == BaseIdle /\ StateIdle /\ LoggerIdle /\ ReplayIdle /\ SnapIdle /\ ExecIdle /\ ConnIdle /\ LogQueueIdle
NotLoggedOrchIdle == BaseIdle /\ StateIdle /\ ReplayIdle /\ SnapIdle /\ ExecIdle /\ ConnIdle /\ LogQueueIdle
NotStateIdle == BaseIdle /\ OrchIdle /\ LoggerIdle /\ ReplayIdle /\ SnapIdle /\ ExecIdle /\ ConnIdle /\ LogQueueIdle
NotReplayedStateIdle == BaseIdle /\ OrchIdle /\ LoggerIdle /\ SnapIdle /\ ExecIdle /\ ConnIdle /\ LogQueueIdle
NotSnapIdle == BaseIdle /\ OrchIdle /\ StateIdle /\ LoggerIdle /\ ReplayIdle /\ ExecIdle /\ ConnIdle /\ LogQueueIdle
NotExecIdle == BaseIdle /\ OrchIdle /\ StateIdle /\ LoggerIdle /\ ReplayIdle /\ SnapIdle /\ ConnIdle /\ LogQueueIdle
NotConnIdle == BaseIdle /\ OrchIdle /\ StateIdle /\ LoggerIdle /\ ReplayIdle /\ SnapIdle /\ ExecIdle /\ LogQueueIdle
NotLogQueueIdle == BaseIdle /\ OrchIdle /\ StateIdle /\ LoggerIdle /\ ReplayIdle /\ SnapIdle /\ ExecIdle /\ ConnIdle
NotReplayIdle == BaseIdle /\ OrchIdle /\ StateIdle /\ LoggerIdle /\ SnapIdle /\ ExecIdle /\ ConnIdle /\ LogQueueIdle

InitBook == BookIdle /\ BcastIdle /\ GateIdle /\ ActorIdle /\ ExtIdle

NextBook ==
    \/ \E update \in DepthUpdates : ApplyDepthUpdate(update)
    \/ \E snapshot \in DepthCaches : ApplySnapshot(snapshot)
    \/ \E ui \in {"RESYNCING", "STALE"} : FetchSnapshotMark(ui)

SpecBook == InitBook /\ [][NextBook]_vars

(***************************************************************************)
(* Order book: properties                                                  *)
(***************************************************************************)

\* The last call was applyDepthUpdate on a LIVE book and it reported Applied
\* (returned true without buffering)
AppliedOnLive == call.branch \in {"dropped", "applied"} /\ call.prevUi = "LIVE"

\* C1 as stated: every diff reported Applied on a LIVE book has
\* u <= last_update_id_old (last_update_id unchanged) or
\* U <= last_update_id_old + 1 + 100 <= u.
C1_SequenceContractAsStated ==
    AppliedOnLive =>
        \/ call.u <= call.prevId /\ ob.lastUpdateId = call.prevId
        \/ /\ call.U <= call.prevId + 1 + MAX_GAP_TOLERANCE
           /\ call.prevId + 1 + MAX_GAP_TOLERANCE <= call.u

\* C1 amended: every diff reported Applied on a LIVE book has
\* u <= last_update_id_old (benign drop, last_update_id unchanged) or
\* U <= last_update_id_old + 1 + 100 and last_update_id_old + 1 <= u
\* (and then last_update_id becomes u).
C1_SequenceContract ==
    AppliedOnLive =>
        \/ call.u <= call.prevId /\ ob.lastUpdateId = call.prevId
        \/ /\ call.U <= call.prevId + 1 + MAX_GAP_TOLERANCE
           /\ call.prevId + 1 <= call.u
           /\ ob.lastUpdateId = call.u

\* A diff starting exactly at the end of the tolerated gap was applied on a LIVE book
C1_Witness ==
    /\ call.branch = "applied"
    /\ call.prevUi = "LIVE"
    /\ call.U = call.prevId + 1 + MAX_GAP_TOLERANCE
    /\ ob.lastUpdateId = call.u

\* C2: book monotonicity. After applyDepthUpdate, last_update_id is unchanged when
\* the diff was dropped as old, buffered or rejected as desync, and equals the
\* diff's u, greater than the previous value, when the diff was applied.
C2_BookMonotonic ==
    /\ call.branch \in {"dropped", "buffered", "desync"} => ob.lastUpdateId = call.prevId
    /\ call.branch = "applied" => ob.lastUpdateId = call.u /\ call.u > call.prevId

\* A diff whose first id differs from its last id was applied
C2_Witness ==
    /\ call.branch = "applied"
    /\ call.U < call.u
    /\ ob.lastUpdateId > call.prevId

\* C3: no price level stored in bids or asks has size <= 0.
C3_NoNonPositiveLevel ==
    /\ \A p \in DOMAIN ob.bids : ob.bids[p] > 0
    /\ \A p \in DOMAIN ob.asks : ob.asks[p] > 0

\* The case C4 is about, as stated: a LIVE book and U > last_update_id + 1 + 100
HardGapAsStated(d) ==
    /\ ob.uiState = "LIVE"
    /\ d.U > ob.lastUpdateId + 1 + MAX_GAP_TOLERANCE

\* The effect C4 states: false returned, desyncs + 1, ids, levels and applied unchanged
DesyncEffect ==
    /\ call'.ret = FALSE
    /\ ob'.stats.desyncs = ob.stats.desyncs + 1
    /\ ob'.lastUpdateId = ob.lastUpdateId
    /\ ob'.bids = ob.bids
    /\ ob'.asks = ob.asks
    /\ ob'.stats.applied = ob.stats.applied

THROTTLE_MS == 250

Symbols == {"BTCUSDT", "ETHUSDT"}

\* Bounds of the broadcast model: the time the model runs for, and the time
\* one broadcastMetrics call may take between its two clock reads
MaxElapsedMs == 300
MaxCallMs == 1

\* Date.now() when the server starts
StartNow == 4 * THROTTLE_MS

\* Clock advances between two events: half the throttle interval, or 1 ms less
TickSteps == {THROTTLE_MS \div 2 - 1, THROTTLE_MS \div 2}

\* d.T of a trade, d.E || d.T || 0 of a depth update
EventTimes == {0, 7}

\* Mutant of Throttled: the interval is compared in seconds
ThrottledInSeconds(intervalMs) == intervalMs < THROTTLE_MS \div 1000

\* if (intervalMs < THROTTLE_MS) return;
Throttled(intervalMs) == intervalMs < THROTTLE_MS

InitBroadcast ==
    /\ now = StartNow
    /\ lastBroadcastTs = [s \in Symbols |-> 0]
    /\ broadcasts = [s \in Symbols |-> << >>]
    /\ BookIdle /\ GateIdle /\ ActorIdle /\ ExtIdle

\* Date.now() is read as a clock that does not go back
Tick(d) ==
    /\ now + d <= StartNow + MaxElapsedMs
    /\ now' = now + d
    /\ UNCHANGED <<lastBroadcastTs, broadcasts, bookVars, gateVars, actorVars, extVars>>

\* broadcastMetrics(s, ..., eventTimeMs, reason): the throttle check, the send to
\* the subscribed clients, lastBroadcastTs = now, and the forward to
\* orchestrator.ingest with canonical_time_ms read from the clock again
broadcastMetrics(s, eventTimeMs, reason, callMs) ==
    /\ now + callMs <= StartNow + MaxElapsedMs
    /\ IF Throttled(now - lastBroadcastTs[s])
       THEN UNCHANGED <<now, lastBroadcastTs, broadcasts>>
       ELSE /\ lastBroadcastTs' = [lastBroadcastTs EXCEPT ![s] = now]
            /\ now' = now + callMs
            /\ broadcasts' = [broadcasts EXCEPT ![s] = Append(@,
                                [ts |-> now, reason |-> reason,
                                 ingested |-> eventTimeMs > 0,
                                 canonical_time_ms |-> now + callMs])]
    /\ UNCHANGED <<bookVars, gateVars, actorVars, extVars>>

\* handleMsg (trade): broadcastMetrics(s, ob, tas, cvd, absVal, leg, t)
TradeBroadcast(s, eventTimeMs, callMs) == broadcastMetrics(s, eventTimeMs, "trade", callMs)

\* handleMsg (depthUpdate, applied): broadcastMetrics(..., d.E || d.T || 0, 'depth')
DepthBroadcast(s, eventTimeMs, callMs) == broadcastMetrics(s, eventTimeMs, "depth", callMs)

NextBroadcast ==
    \/ \E d \in TickSteps : Tick(d)
    \/ \E s \in Symbols, t \in EventTimes, c \in 0..MaxCallMs : TradeBroadcast(s, t, c)
    \/ \E s \in Symbols, t \in EventTimes, c \in 0..MaxCallMs : DepthBroadcast(s, t, c)

SpecBroadcast == InitBroadcast /\ [][NextBroadcast]_vars

\* C5: for every symbol, any two consecutive broadcasts (calls of broadcastMetrics
\* that passed the throttle, trade- or depth-triggered) are at least 250 ms apart.
C5_Throttle ==
    \A s \in DOMAIN broadcasts :
        \A i \in 1..(Len(broadcasts[s]) - 1) :
            broadcasts[s][i + 1].ts - broadcasts[s][i].ts >= THROTTLE_MS

\* A symbol was broadcast for a trade and then for a depth update, both forwarded
C5_Witness ==
    \E s \in DOMAIN broadcasts :
        \E i \in 1..(Len(broadcasts[s]) - 1) :
            /\ broadcasts[s][i].reason = "trade"
            /\ broadcasts[s][i + 1].reason = "depth"
            /\ broadcasts[s][i].ingested
            /\ broadcasts[s][i + 1].ingested
            /\ broadcasts[s][i + 1].ts - broadcasts[s][i].ts = THROTTLE_MS

(***************************************************************************)
(* Gate (runGate)                                                          *)
(*                                                                         *)
(* A JavaScript value is [k, v]: k = "num" a finite number v, and           *)
(* "NaN", "Infinity", "null", "undefined" with v = 0. spread_pct, obiDeep,  *)
(* maxSpreadPct and minObiDeep are in hundredths (0.08 is 8).               *)
(***************************************************************************)

Num(n) == [k |-> "num", v |-> n]
NaN == [k |-> "NaN", v |-> 0]
Infinity == [k |-> "Infinity", v |-> 0]
Null == [k |-> "null", v |-> 0]
Undefined == [k |-> "undefined", v |-> 0]

V1_NO_LATENCY == "V1_NO_LATENCY"
V2_NETWORK_LATENCY == "V2_NETWORK_LATENCY"

\* legacyMetrics: null, or { obiDeep, deltaZ, cvdSlope }
LegacyMetricsInputs ==
    {Null} \cup
    [k : {"object"},
     obiDeep : {Num(30), Num(-30), Num(5), Num(-4), Infinity, Undefined},
     deltaZ : {Num(110), NaN},
     cvdSlope : {Num(20), Null}]

\* OrchestratorMetricsInput
MetricsInputs ==
    [spread_pct : {Num(1), Num(8), Num(9), NaN, Null},
     prints_per_second : {Num(4), Undefined},
     legacyMetrics : LegacyMetricsInputs]

CanonicalTimes == {1, 101, 102, 2000}
ExchangeEventTimes == {Null, Num(1), Num(2000)}

\* RunGateInput
RunGateInputs ==
    [canonical_time_ms : CanonicalTimes,
     exchange_event_time_ms : ExchangeEventTimes,
     metrics : MetricsInputs]

\* GateConfig.v2: absent, or { maxNetworkLatencyMs }
V2Sections == {Undefined} \cup [k : {"object"}, maxNetworkLatencyMs : {10, 100}]

\* GateConfig; v2 is optional
GateConfigs ==
    [mode : {V1_NO_LATENCY, V2_NETWORK_LATENCY},
     maxSpreadPct : {8},
     minObiDeep : {5},
     v2 : V2Sections]

Abs(n) == IF n < 0 THEN -n ELSE n
Max(a, b) == IF a >= b THEN a ELSE b

\* typeof v === 'number' && Number.isFinite(v)
IsFiniteNumber(x) == x.k = "num"

\* input.metrics.legacyMetrics?.field
LegacyField(metrics, field) ==
    IF metrics.legacyMetrics.k = "object" THEN metrics.legacyMetrics[field] ELSE Undefined

RequiredMetrics(metrics) ==
    <<metrics.spread_pct, LegacyField(metrics, "obiDeep"), LegacyField(metrics, "deltaZ"),
      LegacyField(metrics, "cvdSlope"), metrics.prints_per_second>>

HasRequiredMetrics(metrics) ==
    \A i \in 1..5 : IsFiniteNumber(RequiredMetrics(metrics)[i])

\* exchange_event_time_ms === null ? null : Math.max(0, canonical - exchange)
NetworkLatencyMs(input) ==
    IF input.exchange_event_time_ms.k = "null" THEN Null
    ELSE Num(Max(0, input.canonical_time_ms - input.exchange_event_time_ms.v))

\* Mutant of NetworkLatencyOk: the latency is compared with < instead of <=
NetworkLatencyOkStrict(cfg, networkLatencyMs) ==
    IF cfg.mode = V2_NETWORK_LATENCY
    THEN IF /\ networkLatencyMs.k # "null"
            /\ (cfg.v2.k = "object" => networkLatencyMs.v < cfg.v2.maxNetworkLatencyMs)
         THEN "true" ELSE "false"
    ELSE "null"

\* V2: latency !== null && latency <= (cfg.v2?.maxNetworkLatencyMs ?? +Infinity); else null
NetworkLatencyOk(cfg, networkLatencyMs) ==
    IF cfg.mode = V2_NETWORK_LATENCY
    THEN IF /\ networkLatencyMs.k # "null"
            /\ (cfg.v2.k = "object" => networkLatencyMs.v <= cfg.v2.maxNetworkLatencyMs)
         THEN "true" ELSE "false"
    ELSE "null"

\* Mutant of GateReason: the latency check gates in every mode
GateReasonAnyMode(cfg, spreadOk, obiDeepOk, networkLatencyOk) ==
    IF ~spreadOk THEN "spread_too_wide"
    ELSE IF ~obiDeepOk THEN "insufficient_liquidity"
    ELSE IF networkLatencyOk # "true" THEN "network_latency_too_high"
    ELSE "null"

\* Mutant of GateReason: liquidity is reported before the spread
GateReasonObiFirst(cfg, spreadOk, obiDeepOk, networkLatencyOk) ==
    IF ~obiDeepOk THEN "insufficient_liquidity"
    ELSE IF ~spreadOk THEN "spread_too_wide"
    ELSE IF cfg.mode = V2_NETWORK_LATENCY /\ networkLatencyOk # "true"
    THEN "network_latency_too_high"
    ELSE "null"

\* let reason = null; if (!spreadOk) ... else if (!obiDeepOk) ... else if (V2 && !networkLatencyOk) ...
GateReason(cfg, spreadOk, obiDeepOk, networkLatencyOk) ==
    IF ~spreadOk THEN "spread_too_wide"
    ELSE IF ~obiDeepOk THEN "insufficient_liquidity"
    ELSE IF cfg.mode = V2_NETWORK_LATENCY /\ networkLatencyOk # "true"
    THEN "network_latency_too_high"
    ELSE "null"

runGate(input, cfg) ==
    IF ~HasRequiredMetrics(input.metrics)
    THEN [mode |-> cfg.mode,
          passed |-> FALSE,
          reason |-> "missing_metrics",
          network_latency_ms |-> Null,
          checks |-> [hasRequiredMetrics |-> FALSE, spreadOk |-> FALSE, obiDeepOk |-> FALSE,
                      networkLatencyOk |->
                          IF cfg.mode = V2_NETWORK_LATENCY THEN "false" ELSE "null"]]
    ELSE LET spreadOk == input.metrics.spread_pct.v <= cfg.maxSpreadPct
             obiDeepOk == Abs(LegacyField(input.metrics, "obiDeep").v) >= cfg.minObiDeep
             networkLatencyMs == NetworkLatencyMs(input)
             networkLatencyOk == NetworkLatencyOk(cfg, networkLatencyMs)
             reason == GateReason(cfg, spreadOk, obiDeepOk, networkLatencyOk)
         IN [mode |-> cfg.mode,
             passed |-> reason = "null",
             reason |-> reason,
             network_latency_ms |->
                 IF cfg.mode = V2_NETWORK_LATENCY THEN networkLatencyMs ELSE Null,
             checks |-> [hasRequiredMetrics |-> TRUE, spreadOk |-> spreadOk,
                         obiDeepOk |-> obiDeepOk, networkLatencyOk |-> networkLatencyOk]]

NoResult == [mode |-> "none"]

InitGate ==
    /\ gateInput \in RunGateInputs
    /\ gateCfg \in GateConfigs
    /\ gateResult = NoResult
    /\ BookIdle /\ BcastIdle /\ ActorIdle /\ ExtIdle

\* const gate = runGate({ canonical_time_ms, exchange_event_time_ms, metrics }, this.config.gate)
RunGate ==
    /\ gateResult = NoResult
    /\ gateResult' = runGate(gateInput, gateCfg)
    /\ UNCHANGED <<gateInput, gateCfg, bookVars, bcastVars, actorVars, extVars>>

NextGate == RunGate

SpecGate == InitGate /\ [][NextGate]_vars

(***************************************************************************)
(* Gate: properties                                                        *)
(***************************************************************************)

GateDone == gateResult # NoResult

\* The five required metrics as the claims name them, read from the envelope
RequiredAreFinite ==
    /\ gateInput.metrics.spread_pct.k = "num"
    /\ gateInput.metrics.prints_per_second.k = "num"
    /\ gateInput.metrics.legacyMetrics.k = "object"
    /\ gateInput.metrics.legacyMetrics.obiDeep.k = "num"
    /\ gateInput.metrics.legacyMetrics.deltaZ.k = "num"
    /\ gateInput.metrics.legacyMetrics.cvdSlope.k = "num"

SpreadWithin == gateInput.metrics.spread_pct.v <= gateCfg.maxSpreadPct
ObiDeepEnough == Abs(gateInput.metrics.legacyMetrics.obiDeep.v) >= gateCfg.minObiDeep

\* The V1 checks: required metrics finite, spread_pct <= max_spread_pct,
\* |obi_deep| >= min_obi_deep
V1ChecksPass == RequiredAreFinite /\ SpreadWithin /\ ObiDeepEnough

\* max(0, canonical_time_ms - exchange_event_time_ms), a null exchange time
\* counting as 0 as in JavaScript arithmetic
ClaimedLatency ==
    Max(0, gateInput.canonical_time_ms -
           (IF gateInput.exchange_event_time_ms.k = "num"
            THEN gateInput.exchange_event_time_ms.v ELSE 0))

\* C6: in mode V1_NO_LATENCY the gate passes iff the V1 checks pass,
\* network_latency_ms is null, and the result is the same whatever the canonical
\* time, the exchange time and the V2 latency limit are.
C6_GateV1 ==
    (GateDone /\ gateCfg.mode = V1_NO_LATENCY) =>
        /\ gateResult.passed <=> V1ChecksPass
        /\ gateResult.network_latency_ms = Null
        /\ \A c \in CanonicalTimes, e \in ExchangeEventTimes, v2 \in V2Sections :
               runGate([gateInput EXCEPT !.canonical_time_ms = c,
                                         !.exchange_event_time_ms = e],
                       [gateCfg EXCEPT !.v2 = v2]) = gateResult

\* The V1 gate passed with a latency far above the configured V2 limit
C6_Witness ==
    /\ GateDone
    /\ gateCfg.mode = V1_NO_LATENCY
    /\ gateResult.passed
    /\ gateCfg.v2.k = "object"
    /\ gateInput.exchange_event_time_ms.k = "num"
    /\ ClaimedLatency > gateCfg.v2.maxNetworkLatencyMs

\* C7 as stated: in mode V2_NETWORK_LATENCY the gate passes iff the V1 checks pass
\* and max(0, canonical - exchange) <= max_network_latency_ms; when only the
\* latency check fails, passed = false, reason = network_latency_too_high and
\* network_latency_ms is the computed latency.
C7_GateV2AsStated ==
    (GateDone /\ gateCfg.mode = V2_NETWORK_LATENCY /\ gateCfg.v2.k = "object") =>
        /\ gateResult.passed <=>
               (V1ChecksPass /\ ClaimedLatency <= gateCfg.v2.maxNetworkLatencyMs)
        /\ (V1ChecksPass /\ ClaimedLatency > gateCfg.v2.maxNetworkLatencyMs) =>
               /\ ~gateResult.passed
               /\ gateResult.reason = "network_latency_too_high"
               /\ gateResult.network_latency_ms = Num(ClaimedLatency)

\* C7 amended: in mode V2_NETWORK_LATENCY the gate passes iff the V1 checks pass,
\* exchange_event_time_ms is not null and max(0, canonical - exchange) <=
\* max_network_latency_ms (no limit when the configuration has no v2 section);
\* when only the latency check fails, passed = false, reason =
\* network_latency_too_high and network_latency_ms is the computed latency, or
\* null when exchange_event_time_ms is null.
C7_GateV2 ==
    (GateDone /\ gateCfg.mode = V2_NETWORK_LATENCY) =>
        LET timed == gateInput.exchange_event_time_ms.k = "num"
            within == gateCfg.v2.k = "object" =>
                          ClaimedLatency <= gateCfg.v2.maxNetworkLatencyMs
        IN /\ gateResult.passed <=> (V1ChecksPass /\ timed /\ within)
           /\ (V1ChecksPass /\ ~(timed /\ within)) =>
                  /\ ~gateResult.passed
                  /\ gateResult.reason = "network_latency_too_high"
                  /\ gateResult.network_latency_ms =
                         IF timed THEN Num(ClaimedLatency) ELSE Null

\* canonical = 2000, exchange = 1, limit 100: latency 1999 fails the gate
C7_Witness ==
    /\ GateDone
    /\ gateCfg.mode = V2_NETWORK_LATENCY
    /\ gateInput.canonical_time_ms = 2000
    /\ gateInput.exchange_event_time_ms = Num(1)
    /\ gateCfg.v2.k = "object"
    /\ gateCfg.v2.maxNetworkLatencyMs = 100
    /\ V1ChecksPass
    /\ ~gateResult.passed
    /\ gateResult.reason = "network_latency_too_high"
    /\ gateResult.network_latency_ms = Num(1999)

\* The checks that fail for the envelope, each on its own
SpreadFails ==
    gateInput.metrics.spread_pct.k = "num" /\ ~SpreadWithin
ObiDeepFails ==
    /\ gateInput.metrics.legacyMetrics.k = "object"
    /\ gateInput.metrics.legacyMetrics.obiDeep.k = "num"
    /\ ~ObiDeepEnough
LatencyFails ==
    /\ gateCfg.mode = V2_NETWORK_LATENCY
    /\ \/ gateInput.exchange_event_time_ms.k # "num"
       \/ gateCfg.v2.k = "object" /\ ClaimedLatency > gateCfg.v2.maxNetworkLatencyMs

\* C8: the reported reason is the highest-priority failing check in the order
\* missing_metrics > spread_too_wide > insufficient_liquidity >
\* network_latency_too_high, and passed is true exactly when no reason is reported.
C8_ReasonPriority ==
    GateDone =>
        /\ gateResult.reason =
               (IF ~RequiredAreFinite THEN "missing_metrics"
                ELSE IF SpreadFails THEN "spread_too_wide"
                ELSE IF ObiDeepFails THEN "insufficient_liquidity"
                ELSE IF LatencyFails THEN "network_latency_too_high"
                ELSE "null")
        /\ gateResult.passed <=> gateResult.reason = "null"

\* Spread, liquidity and latency fail together and the spread is reported
C8_Witness ==
    /\ GateDone
    /\ RequiredAreFinite
    /\ SpreadFails
    /\ ObiDeepFails
    /\ LatencyFails
    /\ gateResult.reason = "spread_too_wide"
    /\ ~gateResult.passed

(***************************************************************************)
(* SymbolActor: enqueue, processQueue, onMetrics                           *)
(*                                                                         *)
(* One actor. A run is one invocation of processQueue, at one of:           *)
(*   "microtask"      after `await this.onMetrics(event)`, to continue      *)
(*   "awaitConnector" inside onActions, awaiting a connector call, with     *)
(*                    `pending` calls of the action list not yet completed  *)
(*   "rejected"       the invocation has thrown; its catch handler is due   *)
(***************************************************************************)

\* Bounds of the actor model: envelopes enqueued, connector calls per decision
MaxEnvelopes == 4
MaxActions == 2

EnvelopeKinds == {"metrics", "execution"}

\* Mutant of ShouldSchedule: a drain is scheduled on every enqueue
ShouldScheduleAlways(busy) == TRUE

\* if (!this.processing)
ShouldSchedule(busy) == ~busy

\* Mutant of Shift: the newest envelope is taken
ShiftNewest(q) == [event |-> q[Len(q)], rest |-> SubSeq(q, 1, Len(q) - 1)]

\* const event = this.queue.shift()!
Shift(q) == [event |-> Head(q), rest |-> Tail(q)]

\* processQueue's loop up to its next await: execution envelopes are handled
\* synchronously, a metrics envelope is handed to onMetrics and awaited
RECURSIVE Drain(_, _)
Drain(q, done) ==
    IF Len(q) = 0 THEN [queue |-> q, processed |-> done, awaiting |-> FALSE, id |-> 0]
    ELSE LET sh == Shift(q)
         IN IF sh.event.kind = "metrics"
            THEN [queue |-> sh.rest, processed |-> Append(done, sh.event.id),
                  awaiting |-> TRUE, id |-> sh.event.id]
            ELSE Drain(sh.rest, Append(done, sh.event.id))

RemoveAt(seq, i) == SubSeq(seq, 1, i - 1) \o SubSeq(seq, i + 1, Len(seq))

InitActor ==
    /\ queue = << >>
    /\ processing = FALSE
    /\ immediates = 0
    /\ runs = << >>
    /\ enqueued = << >>
    /\ processed = << >>
    /\ nextId = 1
    /\ BookIdle /\ BcastIdle /\ GateIdle /\ ExtIdle

\* SymbolActor.enqueue(event)
enqueue(kind) ==
    /\ nextId <= MaxEnvelopes
    /\ queue' = Append(queue, [id |-> nextId, kind |-> kind])
    /\ enqueued' = Append(enqueued, nextId)
    /\ nextId' = nextId + 1
    /\ IF ShouldSchedule(processing)
       THEN processing' = TRUE /\ immediates' = immediates + 1
       ELSE UNCHANGED <<processing, immediates>>
    /\ UNCHANGED <<runs, processed, bookVars, bcastVars, gateVars, extVars>>

\* Orchestrator.enqueueMetrics: this.getActor(symbol).enqueue(envelope)
EnqueueMetrics == enqueue("metrics")

\* Orchestrator.ingestExecutionReplay: this.getActor(symbol).enqueue(envelope)
IngestExecutionReplay == enqueue("execution")

\* The loop of processQueue from its start or from after an await, by run `self`
\* (0: a new invocation). onMetrics evaluates the decision, which is a NOOP
\* (calls = 0) or makes `calls` connector calls through onActions.
Continue(self, calls) ==
    LET d == Drain(queue, processed)
        others == IF self = 0 THEN runs ELSE RemoveAt(runs, self)
    IN /\ queue' = d.queue
       /\ processed' = d.processed
       /\ IF d.awaiting
          THEN /\ runs' = Append(others,
                              [pc |-> IF calls = 0 THEN "microtask" ELSE "awaitConnector",
                               pending |-> calls, id |-> d.id])
               /\ UNCHANGED processing
          ELSE /\ calls = 0
               /\ runs' = others
               /\ processing' = FALSE

\* setImmediate(() => { this.processQueue().catch(...) })
RunImmediate(calls) ==
    /\ immediates > 0
    /\ immediates' = immediates - 1
    /\ Continue(0, calls)
    /\ UNCHANGED <<enqueued, nextId, bookVars, bcastVars, gateVars, extVars>>

\* processQueue resumes after `await this.onMetrics(event)`
Resume(self, calls) ==
    /\ runs[self].pc = "microtask"
    /\ Continue(self, calls)
    /\ UNCHANGED <<immediates, enqueued, nextId, bookVars, bcastVars, gateVars, extVars>>

\* A connector call of executeActions resolves: the next call of the action list
\* is made, or onActions resolves
ConnectorResolve(self) ==
    /\ runs[self].pc = "awaitConnector"
    /\ runs' = [runs EXCEPT ![self] =
                    IF @.pending > 1 THEN [@ EXCEPT !.pending = @ - 1]
                    ELSE [@ EXCEPT !.pending = 0, !.pc = "microtask"]]
    /\ UNCHANGED <<queue, processing, immediates, enqueued, processed, nextId,
                   bookVars, bcastVars, gateVars, extVars>>

\* A connector call throws: executeActions, onActions, onMetrics and processQueue
\* reject; the rest of the action list is not sent
ConnectorThrow(self) ==
    /\ runs[self].pc = "awaitConnector"
    /\ runs' = [runs EXCEPT ![self] = [@ EXCEPT !.pending = 0, !.pc = "rejected"]]
    /\ UNCHANGED <<queue, processing, immediates, enqueued, processed, nextId,
                   bookVars, bcastVars, gateVars, extVars>>

\* .catch(() => { this.processing = false; })
CatchHandler(self) ==
    /\ runs[self].pc = "rejected"
    /\ runs' = RemoveAt(runs, self)
    /\ processing' = FALSE
    /\ UNCHANGED <<queue, immediates, enqueued, processed, nextId,
                   bookVars, bcastVars, gateVars, extVars>>

NextActor ==
    \/ EnqueueMetrics
    \/ IngestExecutionReplay
    \/ \E calls \in 0..MaxActions : RunImmediate(calls)
    \/ \E self \in DOMAIN runs, calls \in 0..MaxActions : Resume(self, calls)
    \/ \E self \in DOMAIN runs : ConnectorResolve(self)
    \/ \E self \in DOMAIN runs : ConnectorThrow(self)
    \/ \E self \in DOMAIN runs : CatchHandler(self)

SpecActor == InitActor /\ [][NextActor]_vars

(***************************************************************************)
(* SymbolActor: properties                                                 *)
(***************************************************************************)

\* processQueue invocations that are scheduled or have not finished
ActiveRuns == immediates + Cardinality({i \in DOMAIN runs : runs[i].pc # "rejected"})

EnvelopeIds(q) == [i \in DOMAIN q |-> q[i].id]

MaxOrchInputs == 3
MaxSetCalls == 3

\* The same bounds where only the symbol set and the actor map are looked at
MaxSymbolInputs == 1
MaxSymbolSetCalls == 2

\* Calls of setExecutionSymbols in progress at the same time
MaxOverlap == 2

\* Symbols as callers write them
SymbolInputs == {"btcusdt", "BTCUSDT", "ETHUSDT"}

\* symbol.toUpperCase()
toUpperCase(s) == IF s = "btcusdt" THEN "BTCUSDT" ELSE s

\* Arrays handed to setExecutionSymbols; its caller refuses an empty one
SymbolLists == {<<"btcusdt">>, <<"ETHUSDT">>, <<"ETHUSDT", "btcusdt">>,
                <<"btcusdt", "BTCUSDT">>}

\* Types of the execution events the connector emits
ExecutionEventTypes == {"TRADE_UPDATE", "ACCOUNT_UPDATE"}

SeqToSet(q) == {q[i] : i \in DOMAIN q}

\* new Set(symbols.map((s) => s.toUpperCase())), in insertion order
RECURSIVE NewSet(_, _)
NewSet(symbols, acc) ==
    IF symbols = << >> THEN acc
    ELSE LET s == toUpperCase(Head(symbols))
         IN NewSet(Tail(symbols), IF s \in SeqToSet(acc) THEN acc ELSE Append(acc, s))

\* new SymbolActor({ symbol, ... })
NewActor(symbol) == [symbol |-> symbol, queue |-> << >>, pc |-> "idle", fresh |-> FALSE]

\* Orchestrator.getActor(symbol): the actor of the map, created when absent
getActor(acts, insts, symbol) ==
    IF acts[symbol] # 0
    THEN [actors |-> acts, instances |-> insts, actor |-> acts[symbol]]
    ELSE [actors |-> [acts EXCEPT ![symbol] = Len(insts) + 1],
          instances |-> Append(insts, NewActor(symbol)),
          actor |-> Len(insts) + 1]

\* SymbolActor.enqueue(event) of instance i
actorEnqueue(insts, immediates_, i, envelope) ==
    [instances |-> [insts EXCEPT ![i] = [@ EXCEPT !.queue = Append(@, envelope),
                                                  !.pc = IF @ = "idle" THEN "scheduled" ELSE @]],
     immediateQueue |-> IF insts[i].pc = "idle" THEN Append(immediates_, i) ELSE immediates_]

\* Mutant of FilteredOut: only an empty execution set drops
FilteredOutWhenEmpty(symbol) ==
    Len(executionSymbols) = 0 /\ symbol \notin SeqToSet(executionSymbols)

\* if (this.executionSymbols.size > 0 && !this.executionSymbols.has(symbol)) return;
FilteredOut(symbol) ==
    Len(executionSymbols) > 0 /\ symbol \notin SeqToSet(executionSymbols)

NoTrace == [call |-> "none", symbol |-> "", effects |-> << >>]

OrchFields ==
    /\ executionSymbols = << >>
    /\ actors = [s \in Symbols |-> 0]
    /\ instances = << >>
    /\ realizedPnlBySymbol = {}
    /\ decisionLedger = << >>
    /\ orchNow = 0
    /\ setCalls = << >>
    /\ orchTrace = NoTrace
    /\ immediateQueue = << >>
    /\ phase = "poll"
    /\ setCallCount = 0

OrchStart == OrchFields /\ NotOrchIdle

InitOrch ==
    /\ OrchStart
    /\ orchBudget = [inputs |-> MaxOrchInputs, setCalls |-> MaxSetCalls, overlap |-> 1]

InitSymbols ==
    /\ OrchStart
    /\ orchBudget = [inputs |-> MaxSymbolInputs, setCalls |-> MaxSymbolSetCalls,
                     overlap |-> MaxOverlap]

\* The part of ingest, ingestLoggedMetrics and ingestExecutionReplay after the
\* filter: ensureSymbol, (runGate, logMetrics,) getActor(symbol).enqueue(envelope)
enqueueEnvelope(name, symbol, envelope, effects) ==
    LET g == getActor(actors, instances, symbol)
        e == actorEnqueue(g.instances, immediateQueue, g.actor, envelope)
    IN /\ actors' = g.actors
       /\ instances' = e.instances
       /\ immediateQueue' = e.immediateQueue
       /\ orchTrace' = [call |-> name, symbol |-> symbol, effects |-> effects]

\* An ingest call that the filter drops
dropInput(name, symbol) ==
    /\ orchTrace' = [call |-> name, symbol |-> symbol, effects |-> << >>]
    /\ UNCHANGED <<actors, instances, immediateQueue>>

\* Orchestrator.ingest(metrics), metrics.canonical_time_ms later than every
\* earlier input's time
ingest(sym) ==
    LET symbol == toUpperCase(sym)
    IN /\ phase = "poll"
       /\ orchNow < orchBudget.inputs
       /\ orchNow' = orchNow + 1
       /\ IF FilteredOut(symbol)
          THEN dropInput("ingest", symbol)
          ELSE enqueueEnvelope("ingest", symbol, [kind |-> "metrics", time |-> orchNow + 1],
                               <<"ensureSymbol", "runGate", "logMetrics", "enqueue">>)
       /\ UNCHANGED <<executionSymbols, realizedPnlBySymbol, decisionLedger, setCalls, phase,
                      setCallCount, orchBudget>>

\* ingest with the logger left out of the model
Ingest(sym) == ingest(sym) /\ UNCHANGED notOrchVars

\* Orchestrator.ingestLoggedMetrics(logLine)
IngestLoggedMetrics(sym) ==
    LET symbol == toUpperCase(sym)
    IN /\ phase = "poll"
       /\ orchNow < orchBudget.inputs
       /\ orchNow' = orchNow + 1
       /\ IF FilteredOut(symbol)
          THEN dropInput("ingestLoggedMetrics", symbol)
          ELSE enqueueEnvelope("ingestLoggedMetrics", symbol,
                               [kind |-> "metrics", time |-> orchNow + 1],
                               <<"ensureSymbol", "enqueue">>)
       /\ UNCHANGED <<executionSymbols, realizedPnlBySymbol, decisionLedger, setCalls, phase,
                      setCallCount, orchBudget, notOrchVars>>

\* this.connector.onExecutionEvent((event) => { ...; this.ingestExecutionReplay(event) })
ExecutionEvent(symbol, type) ==
    /\ phase = "poll"
    /\ orchNow < orchBudget.inputs
    /\ orchNow' = orchNow + 1
    /\ realizedPnlBySymbol' = IF type = "TRADE_UPDATE"
                              THEN realizedPnlBySymbol \cup {symbol}
                              ELSE realizedPnlBySymbol
    /\ IF FilteredOut(symbol)
       THEN dropInput("ingestExecutionReplay", symbol)
       ELSE enqueueEnvelope("ingestExecutionReplay", symbol,
                            [kind |-> "execution", time |-> orchNow + 1],
                            <<"ensureSymbol", "enqueue">>)
    /\ UNCHANGED <<executionSymbols, decisionLedger, setCalls, phase, setCallCount,
                   orchBudget,
                   notOrchVars>>

\* The symbols of todo from its first one that newSet lacks
RECURSIVE NextDropped(_, _)
NextDropped(todo, new) ==
    IF todo = << >> THEN << >>
    ELSE IF Head(todo) \notin SeqToSet(new) THEN todo
    ELSE NextDropped(Tail(todo), new)

\* Mutant of CreateActors: no actor is created for the new symbols
CreateNoActors(acts, insts, new) == [actors |-> acts, instances |-> insts]

\* for (const symbol of newSet) { this.executionSymbols.add(symbol); this.getActor(symbol); }
RECURSIVE CreateActors(_, _, _)
CreateActors(acts, insts, new) ==
    IF new = << >> THEN [actors |-> acts, instances |-> insts]
    ELSE LET g == getActor(acts, insts, Head(new))
         IN CreateActors(g.actors, g.instances, Tail(new))

\* Mutant of DropSymbol: the realized-pnl tally of a dropped symbol is kept
DropSymbolKeepTally(acts, tally, existing) ==
    [actors |-> [acts EXCEPT ![existing] = 0], tally |-> tally]

\* this.actors.delete(existing); this.realizedPnlBySymbol.delete(existing);
DropSymbol(acts, tally, existing) ==
    [actors |-> [acts EXCEPT ![existing] = 0], tally |-> tally \ {existing}]

\* The calls in progress without call c, which has returned or rejected
EndCall(calls, c) == [k \in 1..(Len(calls) - 1) |-> IF k < c THEN calls[k] ELSE calls[k + 1]]

\* The iterator of a call suspended in its loop over this.executionSymbols sees
\* what another call does to the set: clear() empties the entries it has not
\* visited yet and each add() appends one
LiveIteration(other, new) ==
    IF other.pc = "cancelAllOpenOrders"
    THEN [other EXCEPT !.todo = <<Head(@)>> \o new]
    ELSE other

\* setExecutionSymbols of call c from the end of a pass of its first loop to its
\* next await, entered with the actors and the tally as the loop left them;
\* todo holds the entries of the set the loop has yet to visit
SetSymbolsLoopEnd(calls, c, acts, tally) ==
    LET new == calls[c].new
        rest == NextDropped(calls[c].todo, new)
    IN IF rest # << >>
       THEN /\ setCalls' = [calls EXCEPT ![c] = [@ EXCEPT !.pc = "cancelAllOpenOrders",
                                                          !.todo = rest, !.fresh = TRUE]]
            /\ actors' = acts
            /\ realizedPnlBySymbol' = tally
            /\ UNCHANGED <<executionSymbols, instances>>
       ELSE LET made == CreateActors(acts, instances, new)
            IN /\ setCalls' = [k \in DOMAIN calls |->
                                 IF k = c
                                 THEN [calls[c] EXCEPT !.pc = "syncState", !.todo = << >>,
                                                       !.fresh = TRUE]
                                 ELSE LiveIteration(calls[k], new)]
               /\ executionSymbols' = new
               /\ actors' = made.actors
               /\ instances' = made.instances
               /\ realizedPnlBySymbol' = tally

\* Orchestrator.setExecutionSymbols(symbols), up to its first await
SetExecutionSymbols(symbols) ==
    /\ phase = "poll"
    /\ setCallCount < orchBudget.setCalls
    /\ Len(setCalls) < orchBudget.overlap
    /\ setCallCount' = setCallCount + 1
    /\ SetSymbolsLoopEnd(Append(setCalls, [id |-> setCallCount + 1, pc |-> "start",
                                           new |-> NewSet(symbols, << >>),
                                           todo |-> executionSymbols, fresh |-> TRUE]),
                         Len(setCalls) + 1, actors, realizedPnlBySymbol)
    /\ UNCHANGED <<decisionLedger, orchNow, orchTrace, immediateQueue, phase, orchBudget,
                   notOrchVars>>

\* await this.connector.cancelAllOpenOrders(existing) of call c resolves: the
\* actor and the tally of the symbol are deleted and the loop goes on
CancelAllOpenOrdersResolved(c) ==
    /\ phase = "poll"
    /\ setCalls[c].pc = "cancelAllOpenOrders" /\ ~setCalls[c].fresh
    /\ LET existing == Head(setCalls[c].todo)
           d == DropSymbol(actors, realizedPnlBySymbol, existing)
       IN SetSymbolsLoopEnd([setCalls EXCEPT ![c].todo = Tail(@)], c, d.actors, d.tally)
    /\ UNCHANGED <<decisionLedger, orchNow, orchTrace, immediateQueue, phase,
                   setCallCount, orchBudget,
                   notOrchVars>>

\* await this.connector.syncState() of call c resolves: ensureSymbolsReady is called
SyncStateResolved(c) ==
    /\ phase = "poll"
    /\ setCalls[c].pc = "syncState" /\ ~setCalls[c].fresh
    /\ setCalls' = [setCalls EXCEPT ![c] = [@ EXCEPT !.pc = "ensureSymbolsReady",
                                                     !.fresh = TRUE]]
    /\ UNCHANGED <<executionSymbols, actors, instances, realizedPnlBySymbol, decisionLedger,
                   orchNow, orchTrace, immediateQueue, phase, setCallCount, orchBudget,
                   notOrchVars>>

\* await this.connector.ensureSymbolsReady() of call c resolves: the call returns
EnsureSymbolsReadyResolved(c) ==
    /\ phase = "poll"
    /\ setCalls[c].pc = "ensureSymbolsReady" /\ ~setCalls[c].fresh
    /\ setCalls' = EndCall(setCalls, c)
    /\ UNCHANGED <<executionSymbols, actors, instances, realizedPnlBySymbol, decisionLedger,
                   orchNow, orchTrace, immediateQueue, phase, setCallCount, orchBudget,
                   notOrchVars>>

\* An awaited connector call of call c of setExecutionSymbols rejects: so does
\* the call
SetExecutionSymbolsRejected(c) ==
    /\ phase = "poll"
    /\ ~setCalls[c].fresh
    /\ setCalls' = EndCall(setCalls, c)
    /\ UNCHANGED <<executionSymbols, actors, instances, realizedPnlBySymbol, decisionLedger,
                   orchNow, orchTrace, immediateQueue, phase, setCallCount, orchBudget,
                   notOrchVars>>

IsMetrics(envelope) == envelope.kind = "metrics"

\* onDecisionLogged: this.decisionLedger.push(record), for each metrics envelope
\* of envelopes
DecisionRecords(symbol, envelopes) ==
    LET ms == SelectSeq(envelopes, IsMetrics)
    IN [k \in DOMAIN ms |-> [symbol |-> symbol, canonical_time_ms |-> ms[k].time]]

\* processQueue of instance i from its start or from after an awaited connector
\* call, up to its next awaited connector call or its end: the next n envelopes
\* are shifted and handled; the decision for the last of them makes a connector
\* call (awaiting) or the queue is empty. executeActions begins with
\* this.getActor(symbol). The result is the next actors, instances and ledger.
processQueue(i, n, awaiting) ==
    LET inst == instances[i]
        g == getActor(actors, instances, inst.symbol)
        ledger == decisionLedger \o DecisionRecords(inst.symbol, SubSeq(inst.queue, 1, n))
    IN IF awaiting
       THEN [actors |-> g.actors,
             instances |-> [g.instances EXCEPT ![i] =
                               [@ EXCEPT !.queue = SubSeq(@, n + 1, Len(@)),
                                         !.pc = "awaitConnector",
                                         !.fresh = (phase = "poll")]],
             decisionLedger |-> ledger]
       ELSE [actors |-> actors,
             instances |-> [instances EXCEPT ![i] =
                               [@ EXCEPT !.queue = << >>, !.pc = "idle", !.fresh = FALSE]],
             decisionLedger |-> ledger]

\* The envelopes processQueue of instance i can handle in one go: all of them
\* (not awaiting), or up to a metrics envelope whose actions make a connector call
CanProcess(i, n, awaiting) ==
    /\ n \in 0..Len(instances[i].queue)
    /\ IF awaiting THEN n >= 1 /\ IsMetrics(instances[i].queue[n])
       ELSE n = Len(instances[i].queue)

\* The connector calls made in this iteration of the event loop can settle from
\* the next one on
NextIteration(insts) == [k \in DOMAIN insts |-> [insts[k] EXCEPT !.fresh = FALSE]]

\* setImmediate(() => { this.processQueue().catch(...) }) of the instance whose
\* callback was scheduled first; after the last pending callback the loop
\* starts its next iteration
runImmediate(n, awaiting) ==
    /\ immediateQueue # << >>
    /\ LET i == Head(immediateQueue)
           last == Len(immediateQueue) = 1
       IN /\ CanProcess(i, n, awaiting)
          /\ LET p == processQueue(i, n, awaiting)
             IN /\ actors' = p.actors
                /\ decisionLedger' = p.decisionLedger
                /\ instances' = IF last
                                THEN [NextIteration(p.instances) EXCEPT ![i].fresh = FALSE]
                                ELSE [p.instances EXCEPT ![i].fresh = FALSE]
          /\ setCalls' = IF last THEN NextIteration(setCalls) ELSE setCalls
          /\ phase' = IF last THEN "poll" ELSE "check"
    /\ immediateQueue' = Tail(immediateQueue)
    /\ UNCHANGED <<executionSymbols, realizedPnlBySymbol, orchNow, orchTrace,
                   setCallCount, orchBudget>>

\* The callback with the logger left out of the model
ActorImmediate(n, awaiting) == runImmediate(n, awaiting) /\ UNCHANGED notOrchVars

\* An iteration of the event loop with no setImmediate callback pending ends
LoopIteration ==
    /\ phase = "poll" /\ immediateQueue = << >>
    /\ \/ \E c \in DOMAIN setCalls : setCalls[c].fresh
       \/ \E k \in DOMAIN instances : instances[k].fresh
    /\ instances' = NextIteration(instances)
    /\ setCalls' = NextIteration(setCalls)
    /\ UNCHANGED <<executionSymbols, actors, realizedPnlBySymbol, decisionLedger, orchNow,
                   orchTrace, immediateQueue, phase,
                   setCallCount, orchBudget,
                   notOrchVars>>

\* The connector call instance i awaits resolves and processQueue goes on
connectorResolved(i, n, awaiting) ==
    /\ phase = "poll"
    /\ instances[i].pc = "awaitConnector" /\ ~instances[i].fresh
    /\ CanProcess(i, n, awaiting)
    /\ LET p == processQueue(i, n, awaiting)
       IN /\ actors' = p.actors
          /\ instances' = p.instances
          /\ decisionLedger' = p.decisionLedger
    /\ UNCHANGED <<executionSymbols, realizedPnlBySymbol, orchNow, setCalls, orchTrace,
                   immediateQueue, phase, setCallCount, orchBudget>>

\* The continuation with the logger left out of the model
ActorConnectorResolved(i, n, awaiting) ==
    connectorResolved(i, n, awaiting) /\ UNCHANGED notOrchVars

\* The connector call instance i awaits rejects: processQueue rejects and the
\* catch handler sets processing = false
ActorConnectorRejected(i) ==
    /\ phase = "poll"
    /\ instances[i].pc = "awaitConnector" /\ ~instances[i].fresh
    /\ instances' = [instances EXCEPT ![i] = [@ EXCEPT !.pc = "idle"]]
    /\ UNCHANGED <<executionSymbols, actors, realizedPnlBySymbol, decisionLedger, orchNow,
                   setCalls, orchTrace, immediateQueue, phase,
                   setCallCount, orchBudget,
                   notOrchVars>>

NextOrch ==
    \/ \E sym \in SymbolInputs : Ingest(sym)
    \/ \E symbol \in Symbols, type \in ExecutionEventTypes : ExecutionEvent(symbol, type)
    \/ \E symbols \in SymbolLists : SetExecutionSymbols(symbols)
    \/ \E c \in DOMAIN setCalls : CancelAllOpenOrdersResolved(c)
    \/ \E c \in DOMAIN setCalls : SyncStateResolved(c)
    \/ \E c \in DOMAIN setCalls : EnsureSymbolsReadyResolved(c)
    \/ \E c \in DOMAIN setCalls : SetExecutionSymbolsRejected(c)
    \/ \E n \in 0..MaxOrchInputs, awaiting \in BOOLEAN : ActorImmediate(n, awaiting)
    \/ LoopIteration
    \/ \E i \in DOMAIN instances, n \in 0..MaxOrchInputs, awaiting \in BOOLEAN :
           ActorConnectorResolved(i, n, awaiting)
    \/ \E i \in DOMAIN instances : ActorConnectorRejected(i)

SpecOrch == InitOrch /\ [][NextOrch]_vars

SpecSymbols == InitSymbols /\ [][NextOrch]_vars

(***************************************************************************)
(* Orchestrator: properties                                                *)
(***************************************************************************)

\* The canonical_time_ms of the ledger's records of one symbol, in ledger order
LedgerTimes(symbol) ==
    LET IsOf(r) == r.symbol = symbol
        rs == SelectSeq(decisionLedger, IsOf)
    IN [k \in DOMAIN rs |-> rs[k].canonical_time_ms]

\* C11: for every symbol, the DecisionRecords of the decision ledger are in
\* strictly increasing order of canonical_time_ms.
C11_LedgerStrictlyIncreasing ==
    \A symbol \in Symbols :
        LET ts == LedgerTimes(symbol)
        IN \A k \in 1..(Len(ts) - 1) : ts[k] < ts[k + 1]

\* C19: when the execution set is non-empty and lacks the symbol of an ingested
\* metrics input, ingest drops the input: no gate is run, no metrics line is
\* logged, no actor is created and no envelope is enqueued.
C19_ExecutionSymbolFilter ==
    [][(/\ orchNow' # orchNow /\ orchTrace'.call = "ingest"
        /\ Len(executionSymbols) > 0
        /\ orchTrace'.symbol \notin SeqToSet(executionSymbols))
       => /\ orchTrace'.effects = << >>
          /\ actors' = actors
          /\ instances' = instances
          /\ immediateQueue' = immediateQueue
          /\ decisionLedger' = decisionLedger]_vars

\* An ingest call was dropped by a non-empty execution set that lacks its symbol
C19_Witness ==
    /\ orchTrace.call = "ingest" /\ orchTrace.effects = << >>
    /\ Len(executionSymbols) > 0
    /\ orchTrace.symbol \notin SeqToSet(executionSymbols)

\* The ids of the calls in progress
CallIds(calls) == {calls[k].id : k \in DOMAIN calls}

\* The call in progress whose id is id
CallById(calls, id) == calls[CHOOSE k \in DOMAIN calls : calls[k].id = id]

\* C20: setExecutionSymbols(new): for each symbol that was in the execution set
\* and is not in new, all its open orders are cancelled and its actor and
\* realized-pnl tally are discarded; for each symbol in new an actor exists when
\* the call returns; the connector is then told to refresh subscriptions and
\* sync state. (The call returns when its last await, ensureSymbolsReady,
\* resolves.)
C20_SetExecutionSymbols ==
    \A c \in DOMAIN setCalls :
        setCalls[c].pc = "ensureSymbolsReady"
            => \A s \in SeqToSet(setCalls[c].new) : actors[s] # 0

\* Call id of setExecutionSymbols starts or goes on after an await in this step
SetCallSteps(id) ==
    /\ id \in CallIds(setCalls')
    /\ id \in CallIds(setCalls)
           => ~CallById(setCalls, id).fresh /\ CallById(setCalls', id).fresh

\* The effects of each step of one call of setExecutionSymbols: the loop passes
\* over a symbol only if it is in new, or after its open orders were cancelled,
\* and then its actor and its tally are deleted; when the loop ends the set is
\* new and an actor exists for each of its symbols; ensureSymbolsReady follows
\* syncState
SetExecutionSymbolsSteps ==
    [][\A id \in 1..(setCallCount + 1) :
         SetCallSteps(id) =>
           LET started == id \in CallIds(setCalls)
               prev == IF started THEN CallById(setCalls, id)
                      ELSE [pc |-> "start", todo |-> <<"">> \o executionSymbols]
               next == CallById(setCalls', id)
               rest == IF prev.todo = << >> THEN << >> ELSE Tail(prev.todo)
           IN /\ \A s \in SeqToSet(rest) :
                     s \in SeqToSet(next.new) \/ s \in SeqToSet(next.todo)
              /\ prev.pc = "cancelAllOpenOrders"
                    => /\ actors'[Head(prev.todo)] = 0
                       /\ Head(prev.todo) \notin realizedPnlBySymbol'
              /\ next.pc = "syncState"
                    => /\ executionSymbols' = next.new
                       /\ \A s \in SeqToSet(next.new) : actors'[s] # 0
              /\ next.pc = "ensureSymbolsReady" => prev.pc = "syncState"]_vars


\* C40: when a call of setExecutionSymbols with a non-empty new returns, the
\* actor map holds no actor for a symbol outside new
C40_ActorsFollowSymbols ==
    [][\A c \in DOMAIN setCalls :
         (EnsureSymbolsReadyResolved(c) /\ setCalls[c].new # << >>)
            => \A s \in Symbols : actors'[s] # 0 => s \in SeqToSet(setCalls[c].new)]_vars
(***************************************************************************)
(* DecisionEngine and the state of one SymbolActor                          *)
(*                                                                         *)
(* Numbers with a fraction are kept as integers in a fixed unit: delta_z    *)
(* and cvd_slope in tenths, prints_per_second in eightieths, pnl percent in *)
(* hundredths, times in milliseconds.                                       *)
(***************************************************************************)

\* Bound of the state model: envelopes handled by the actor
MaxStateEvents == 4

\* canonical_time_ms of metrics envelopes and event_time_ms of execution events
Times == {0, 600, 1400}

\* cooldownConfig: the defaults (COOLDOWN_MIN_MS, COOLDOWN_MAX_MS) and a narrow one
CooldownConfigs == {[minMs |-> 2000, maxMs |-> 30000], [minMs |-> 500, maxMs |-> 800]}

\* deps.getInitialMarginUsdt() and deps.getMaxLeverage()
InitialMarginUsdt == 10
MaxLeverage == 10

\* deps.expectedPrice(symbol, side, 'MARKET')
ExpectedPrices == {Null, Num(100)}

\* A metrics envelope as evaluate and onMetrics read it
Metrics(passed, deltaZ, cvdSlope, pps) ==
    [passed |-> passed, deltaZ |-> deltaZ, cvdSlope |-> cvdSlope, prints_per_second |-> pps]

\* Metrics envelopes of the state model; a gate that passed saw finite numbers
StateMetrics ==
    {Metrics(TRUE, Num(-35), Num(-6), Num(3)), Metrics(TRUE, Num(5), Num(6), Num(1)),
     Metrics(TRUE, Num(0), Num(0), Num(8000)), Metrics(FALSE, NaN, Num(0), Num(1)),
     Metrics(FALSE, Infinity, Num(0), Undefined)}

\* Metrics envelopes of the decision model, around the limits of the rules
DecisionMetrics ==
    {Metrics(passed, Num(dz), Num(cvd), Num(1)) :
        passed \in BOOLEAN, dz \in {-35, -30, 0, 30, 35}, cvd \in {-6, -5, 5, 6}}

\* Execution quality samples of a TRADE_UPDATE: latency in ms and slippage in bps
QualitySamples == {<<0, 0>>, <<9000, 0>>}

\* getExpectedOrderMeta(event.orderId) with the latency and slippage derived from it
ExpectedOrderMetas ==
    {Null} \cup {[k |-> "meta", tag |-> tag, latency |-> q[1], slippageBps |-> q[2]] :
                    tag \in {"entry", "add"}, q \in QualitySamples}

OrderIds == {"o1"}

\* Open orders as the events carry them
OpenOrders == [orderId : OrderIds, reduceOnly : BOOLEAN]

\* unrealizedPnL of an ACCOUNT_UPDATE, in hundredths
UnrealizedPnLs == {0, 20, 80}

Position(side, addsUsed, unrealizedPnlPct, peakPnlPct) ==
    [k |-> "position", side |-> side, addsUsed |-> addsUsed,
     unrealizedPnlPct |-> unrealizedPnlPct, peakPnlPct |-> peakPnlPct]

\* The state the SymbolActor constructor builds
NewSymbolState ==
    [halted |-> FALSE, position |-> Null, openOrders |-> {}, hasOpenEntryOrder |-> FALSE,
     cooldown_until_ms |-> 0, last_exit_event_time_ms |-> 0,
     execQuality |-> [poor |-> FALSE, recentLatencyMs |-> << >>, recentSlippageBps |-> << >>]]

DecisionAction(type, event_time_ms, side, reduceOnly, reason) ==
    [type |-> type, event_time_ms |-> event_time_ms, side |-> side, reduceOnly |-> reduceOnly,
     reason |-> reason]

\* Number(qty.toFixed(6)) in millionths, 0 when qty is not a positive finite number
computeProbeQuantity(initialMarginUsdt, expectedPrice) ==
    LET notional == initialMarginUsdt * MaxLeverage
    IN IF expectedPrice <= 0 \/ notional <= 0 THEN 0
       ELSE (2 * notional * 1000000 + expectedPrice) \div (2 * expectedPrice)

\* Mutant of exitAction: the exit order is not reduce-only
exitActionNotReduceOnly(event_time_ms, side, reason) ==
    DecisionAction("EXIT_MARKET", event_time_ms, side, FALSE, reason)

\* DecisionEngine.exitAction
exitAction(event_time_ms, side, reason) ==
    DecisionAction("EXIT_MARKET", event_time_ms, side, TRUE, reason)

\* The sizing of ENTRY_PROBE and ADD_POSITION: an action when the expected
\* price and the quantity are positive
SizedAction(type, event_time_ms, side, price, reason) ==
    IF price.k = "num" /\ price.v > 0
       /\ computeProbeQuantity(InitialMarginUsdt, price.v) > 0
    THEN <<DecisionAction(type, event_time_ms, side, FALSE, reason)>>
    ELSE << >>

\* Mutant of evaluateFlat: the entry does not wait for the cooldown
evaluateFlatInCooldown(event_time_ms, metrics, state, price, cancel) ==
    LET deltaZ == metrics.deltaZ.v
        inCooldown == event_time_ms < state.cooldown_until_ms
        side == IF deltaZ > 0 THEN "BUY" ELSE IF deltaZ < 0 THEN "SELL" ELSE "null"
        probe == IF /\ ~state.halted /\ ~state.hasOpenEntryOrder /\ state.openOrders = {}
                    /\ side # "null"
                 THEN SizedAction("ENTRY_PROBE", event_time_ms, side, price,
                                  "entry_probe_liquidity_pressure_context")
                 ELSE << >>
        actions == cancel \o probe
    IN IF actions # << >> THEN actions
       ELSE <<DecisionAction("NOOP", event_time_ms, "none", FALSE,
                             IF state.halted THEN "halt_mode"
                             ELSE IF inCooldown THEN "cooldown" ELSE "flat_wait")>>

\* DecisionEngine.evaluate with a flat state
evaluateFlat(event_time_ms, metrics, state, price, cancel) ==
    LET deltaZ == metrics.deltaZ.v
        inCooldown == event_time_ms < state.cooldown_until_ms
        side == IF deltaZ > 0 THEN "BUY" ELSE IF deltaZ < 0 THEN "SELL" ELSE "null"
        probe == IF /\ ~state.halted /\ ~state.hasOpenEntryOrder /\ state.openOrders = {}
                    /\ ~inCooldown /\ side # "null"
                 THEN SizedAction("ENTRY_PROBE", event_time_ms, side, price,
                                  "entry_probe_liquidity_pressure_context")
                 ELSE << >>
        actions == cancel \o probe
    IN IF actions # << >> THEN actions
       ELSE <<DecisionAction("NOOP", event_time_ms, "none", FALSE,
                             IF state.halted THEN "halt_mode"
                             ELSE IF inCooldown THEN "cooldown" ELSE "flat_wait")>>

\* DecisionEngine.evaluate with an open position
evaluatePosition(event_time_ms, metrics, state, price, cancel) ==
    LET deltaZ == metrics.deltaZ.v
        cvdSlope == metrics.cvdSlope.v
        position == state.position
        closing == IF position.side = "LONG" THEN "SELL" ELSE "BUY"
        pnlDrawdown == position.peakPnlPct - position.unrealizedPnlPct
        profitLock == IF position.peakPnlPct > 50 /\ pnlDrawdown > 20
                      THEN <<exitAction(event_time_ms, closing, "profit_lock_drawdown")>>
                      ELSE << >>
        reversalLong == IF position.side = "LONG" /\ deltaZ < -30 /\ cvdSlope < -5
                        THEN <<exitAction(event_time_ms, "SELL", "reversal_exit_long")>>
                        ELSE << >>
        reversalShort == IF position.side = "SHORT" /\ deltaZ > 30 /\ cvdSlope > 5
                         THEN <<exitAction(event_time_ms, "BUY", "reversal_exit_short")>>
                         ELSE << >>
        emergency == IF state.execQuality.poor /\ Len(state.execQuality.recentLatencyMs) >= 3
                     THEN <<exitAction(event_time_ms, closing, "emergency_exit_exec_quality")>>
                     ELSE << >>
        canAdd == /\ ~state.halted
                  /\ position.addsUsed < 2
                  /\ position.unrealizedPnlPct > 10
                  /\ ~state.execQuality.poor
                  /\ \/ position.side = "LONG" /\ deltaZ > 0
                     \/ position.side = "SHORT" /\ deltaZ < 0
        add == IF canAdd
               THEN SizedAction("ADD_POSITION", event_time_ms,
                                IF position.side = "LONG" THEN "BUY" ELSE "SELL", price,
                                "scale_in_momentum")
               ELSE << >>
        actions == cancel \o profitLock \o reversalLong \o reversalShort \o emergency \o add
    IN IF actions # << >> THEN actions
       ELSE <<DecisionAction("NOOP", event_time_ms, "none", FALSE, "position_manage")>>

\* DecisionEngine.evaluate
evaluate(event_time_ms, metrics, state, price) ==
    IF ~metrics.passed
    THEN <<DecisionAction("NOOP", event_time_ms, "none", FALSE, "gate_fail")>>
    ELSE LET cancel == IF state.halted /\ state.hasOpenEntryOrder
                       THEN <<DecisionAction("CANCEL_OPEN_ENTRY_ORDERS", event_time_ms, "none",
                                             FALSE, "halt_mode_cancel_entry")>>
                       ELSE << >>
         IN IF state.position.k = "null"
            THEN evaluateFlat(event_time_ms, metrics, state, price, cancel)
            ELSE evaluatePosition(event_time_ms, metrics, state, price, cancel)

\* x || 0 of a metrics field: NaN, undefined, null and 0 give 0
OrZero(x) == IF x.k \in {"num", "Infinity"} THEN x ELSE Num(0)

Min(a, b) == IF a <= b THEN a ELSE b

\* Mutant of computeCooldownMs: the cooldown is not raised to minMs
computeCooldownMsNoMin(deltaZ, printsPerSecond, minMs, maxMs) ==
    IF deltaZ.k = "Infinity" \/ printsPerSecond.k = "Infinity" THEN maxMs
    ELSE Min(maxMs, (80 * Abs(deltaZ.v) + printsPerSecond.v + 2) \div 4)

\* DecisionEngine.computeCooldownMs: raw = 200 * (|deltaZ| + printsPerSecond / 10) is
\* (80 * |tenths| + eightieths) / 4, and Math.round(raw) is floor(raw + 1/2)
computeCooldownMs(deltaZ, printsPerSecond, minMs, maxMs) ==
    IF deltaZ.k = "Infinity" \/ printsPerSecond.k = "Infinity" THEN Max(minMs, maxMs)
    ELSE Max(minMs, Min(maxMs, (80 * Abs(deltaZ.v) + printsPerSecond.v + 2) \div 4))

\* The last decision, with the number of the event that produced it
NoDecision == [seq |-> 0, event_time_ms |-> 0, metrics |-> Null, actions |-> << >>]

\* The last decision that held an exit action and the last close of the position
NoExits == [exit |-> Null, close |-> Null]

\* The cached metrics and configuration of a new actor
ActorFields ==
    /\ lastDeltaZ = Num(0)
    /\ lastPrintsPerSecond = Num(0)
    /\ cooldownConfig \in CooldownConfigs
    /\ decision = NoDecision
    /\ exits = NoExits

ActorStart == ActorFields /\ NotStateIdle

InitState ==
    /\ symbolState = NewSymbolState
    /\ stateEvents = 0
    /\ ActorStart

HasType(actions, type) == \E i \in DOMAIN actions : actions[i].type = type

\* SymbolActor.onMetrics(envelope), up to its call of onActions
onMetrics(event_time_ms, metrics, price) ==
    LET actions == evaluate(event_time_ms, metrics, symbolState, price)
    IN /\ stateEvents < MaxStateEvents
       /\ stateEvents' = stateEvents + 1
       /\ lastDeltaZ' = OrZero(metrics.deltaZ)
       /\ lastPrintsPerSecond' = OrZero(metrics.prints_per_second)
       /\ decision' = [seq |-> stateEvents + 1, event_time_ms |-> event_time_ms,
                       metrics |-> metrics, actions |-> actions]
       /\ exits' = IF HasType(actions, "EXIT_MARKET")
                   THEN [exits EXCEPT !.exit = [k |-> "exit", seq |-> stateEvents + 1,
                                                event_time_ms |-> event_time_ms,
                                                deltaZ |-> metrics.deltaZ,
                                                prints_per_second |->
                                                    metrics.prints_per_second]]
                   ELSE exits
       /\ UNCHANGED <<symbolState, cooldownConfig>>

OnMetrics(event_time_ms, metrics, price) ==
    onMetrics(event_time_ms, metrics, price) /\ UNCHANGED notStateVars

\* onExecutionEvent: SYSTEM_HALT
SystemHalt ==
    /\ stateEvents < MaxStateEvents
    /\ stateEvents' = stateEvents + 1
    /\ symbolState' = [symbolState EXCEPT !.halted = TRUE]
    /\ UNCHANGED <<lastDeltaZ, lastPrintsPerSecond, cooldownConfig, decision, exits,
                   notStateVars>>

\* onExecutionEvent: SYSTEM_RESUME
SystemResume ==
    /\ stateEvents < MaxStateEvents
    /\ stateEvents' = stateEvents + 1
    /\ symbolState' = [symbolState EXCEPT !.halted = FALSE]
    /\ UNCHANGED <<lastDeltaZ, lastPrintsPerSecond, cooldownConfig, decision, exits,
                   notStateVars>>

\* Array.from(openOrders.values()).some((o) => !o.reduceOnly)
HasOpenEntryOrder(openOrders) == \E o \in openOrders : ~o.reduceOnly

\* openOrders.delete(orderId)
WithoutOrder(openOrders, orderId) == {o \in openOrders : o.orderId # orderId}

\* Mutant of OrderUpdate: an update with a terminal status is stored like any other
OrderUpdateKeepsTerminal(order, terminal) ==
    LET openOrders == WithoutOrder(symbolState.openOrders, order.orderId) \cup {order}
    IN /\ stateEvents < MaxStateEvents
       /\ stateEvents' = stateEvents + 1
       /\ symbolState' = [symbolState EXCEPT !.openOrders = openOrders,
                                             !.hasOpenEntryOrder = HasOpenEntryOrder(openOrders)]
       /\ UNCHANGED <<lastDeltaZ, lastPrintsPerSecond, cooldownConfig, decision, exits,
                      notStateVars>>

\* onExecutionEvent: ORDER_UPDATE
OrderUpdate(order, terminal) ==
    LET openOrders == IF terminal THEN WithoutOrder(symbolState.openOrders, order.orderId)
                      ELSE WithoutOrder(symbolState.openOrders, order.orderId) \cup {order}
    IN /\ stateEvents < MaxStateEvents
       /\ stateEvents' = stateEvents + 1
       /\ symbolState' = [symbolState EXCEPT !.openOrders = openOrders,
                                             !.hasOpenEntryOrder = HasOpenEntryOrder(openOrders)]
       /\ UNCHANGED <<lastDeltaZ, lastPrintsPerSecond, cooldownConfig, decision, exits,
                      notStateVars>>

\* Mutant of OpenOrdersSnapshot: the snapshot of a state sync also clears halted
OpenOrdersSnapshotResumes(orders) ==
    /\ stateEvents < MaxStateEvents
    /\ stateEvents' = stateEvents + 1
    /\ symbolState' = [symbolState EXCEPT !.openOrders = orders,
                                          !.hasOpenEntryOrder = HasOpenEntryOrder(orders),
                                          !.halted = FALSE]
    /\ UNCHANGED <<lastDeltaZ, lastPrintsPerSecond, cooldownConfig, decision, exits,
                   notStateVars>>

\* onExecutionEvent: OPEN_ORDERS_SNAPSHOT
OpenOrdersSnapshot(orders) ==
    /\ stateEvents < MaxStateEvents
    /\ stateEvents' = stateEvents + 1
    /\ symbolState' = [symbolState EXCEPT !.openOrders = orders,
                                          !.hasOpenEntryOrder = HasOpenEntryOrder(orders)]
    /\ UNCHANGED <<lastDeltaZ, lastPrintsPerSecond, cooldownConfig, decision, exits,
                   notStateVars>>

RECURSIVE Sum(_)
Sum(values) == IF values = << >> THEN 0 ELSE Head(values) + Sum(Tail(values))

\* push, then shift when the ring holds more than 20 values
PushRing(ring, value) ==
    LET pushed == Append(ring, value)
    IN IF Len(pushed) > 20 THEN Tail(pushed) ELSE pushed

\* SymbolActor.pushExecQuality; average > limit is sum > limit * length
pushExecQuality(execQuality, latencyMs, slippageBps) ==
    LET lat == PushRing(execQuality.recentLatencyMs, latencyMs)
        slip == PushRing(execQuality.recentSlippageBps, slippageBps)
    IN [poor |-> Sum(lat) > 2000 * Len(lat) \/ Sum(slip) > 30 * Len(slip),
        recentLatencyMs |-> lat, recentSlippageBps |-> slip]

\* Mutant of MarkAddUsed: adds are counted without a cap
MarkAddUsedUncapped(addsUsed) == addsUsed + 1

\* Math.min(2, this.state.position.addsUsed + 1)
MarkAddUsed(addsUsed) == Min(2, addsUsed + 1)

\* onExecutionEvent: TRADE_UPDATE
TradeUpdate(expected) ==
    /\ stateEvents < MaxStateEvents
    /\ stateEvents' = stateEvents + 1
    /\ symbolState' =
           IF expected.k = "null" THEN symbolState
           ELSE [symbolState EXCEPT
                    !.execQuality = pushExecQuality(@, expected.latency, expected.slippageBps),
                    !.position = IF expected.tag = "add" /\ @.k # "null"
                                 THEN [@ EXCEPT !.addsUsed = MarkAddUsed(@)]
                                 ELSE @]
    /\ UNCHANGED <<lastDeltaZ, lastPrintsPerSecond, cooldownConfig, decision, exits,
                   notStateVars>>

\* onExecutionEvent: ACCOUNT_UPDATE
accountUpdate(event_time_ms, positionAmt, unrealizedPnL) ==
    LET hadPosition == symbolState.position.k # "null"
        prevPeak == IF hadPosition THEN symbolState.position.peakPnlPct ELSE unrealizedPnL
        position == IF Abs(positionAmt) = 0 THEN Null
                    ELSE Position(IF positionAmt > 0 THEN "LONG" ELSE "SHORT",
                                  IF hadPosition THEN symbolState.position.addsUsed ELSE 0,
                                  unrealizedPnL, Max(prevPeak, unrealizedPnL))
        closed == hadPosition /\ position.k = "null"
        cooldownMs == computeCooldownMs(lastDeltaZ, lastPrintsPerSecond,
                                        cooldownConfig.minMs, cooldownConfig.maxMs)
    IN /\ stateEvents < MaxStateEvents
       /\ stateEvents' = stateEvents + 1
       /\ symbolState' =
              [symbolState EXCEPT
                  !.position = position,
                  !.last_exit_event_time_ms = IF closed THEN event_time_ms ELSE @,
                  !.cooldown_until_ms = IF closed THEN event_time_ms + cooldownMs ELSE @]
       /\ exits' = IF closed
                   THEN [exits EXCEPT !.close = [k |-> "close", seq |-> stateEvents + 1,
                                                 event_time_ms |-> event_time_ms,
                                                 deltaZ |-> lastDeltaZ,
                                                 prints_per_second |-> lastPrintsPerSecond]]
                   ELSE exits
       /\ UNCHANGED <<lastDeltaZ, lastPrintsPerSecond, cooldownConfig, decision>>

AccountUpdate(event_time_ms, positionAmt, unrealizedPnL) ==
    accountUpdate(event_time_ms, positionAmt, unrealizedPnL) /\ UNCHANGED notStateVars

NextState ==
    \/ \E t \in Times, metrics \in StateMetrics, price \in ExpectedPrices :
           OnMetrics(t, metrics, price)
    \/ SystemHalt
    \/ SystemResume
    \/ \E order \in OpenOrders, terminal \in BOOLEAN : OrderUpdate(order, terminal)
    \/ \E orders \in SUBSET OpenOrders : OpenOrdersSnapshot(orders)
    \/ \E expected \in ExpectedOrderMetas : TradeUpdate(expected)
    \/ \E t \in Times, positionAmt \in {-1, 0, 1}, unrealizedPnL \in UnrealizedPnLs :
           AccountUpdate(t, positionAmt, unrealizedPnL)

SpecState == InitState /\ [][NextState]_vars

\* ---- One evaluation of the decision engine on a drawn state ----

\* Execution quality rings of the drawn states: empty, or three slow fills
DecisionQualities ==
    {NewSymbolState.execQuality,
     pushExecQuality(pushExecQuality(pushExecQuality(NewSymbolState.execQuality, 9000, 0),
                                     9000, 0), 9000, 0)}

\* Positions of the drawn states; the peak is never below the unrealized pnl
DecisionPositions ==
    {Null} \cup {Position(side, addsUsed, pnl[1], pnl[2]) :
                    side \in {"LONG", "SHORT"}, addsUsed \in 0..2,
                    pnl \in {q \in UnrealizedPnLs \X UnrealizedPnLs : q[1] <= q[2]}}

\* SymbolStates the actor's handlers can build
DecisionStates ==
    {[halted |-> halted, position |-> position, openOrders |-> orders,
      hasOpenEntryOrder |-> HasOpenEntryOrder(orders),
      cooldown_until_ms |-> cooldown[2], last_exit_event_time_ms |-> cooldown[1],
      execQuality |-> quality] :
        halted \in BOOLEAN, position \in DecisionPositions, orders \in SUBSET OpenOrders,
        cooldown \in {<<0, 0>>, <<600, 1100>>}, quality \in DecisionQualities}

InitDecision ==
    /\ symbolState \in DecisionStates
    /\ stateEvents = MaxStateEvents - 1
    /\ ActorStart

NextDecision ==
    \E t \in Times, metrics \in DecisionMetrics, price \in ExpectedPrices :
        OnMetrics(t, metrics, price)

SpecDecision == InitDecision /\ [][NextDecision]_vars

\* ---- Claims about the actor state and the decisions ----

EntryProbes(actions) == {i \in DOMAIN actions : actions[i].type = "ENTRY_PROBE"}

\* clamp(round(200 * (|delta_z| + prints_per_second / 10)), min, max) stated from its
\* meaning: the rounded value c is the integer with c - 1/2 <= 200 * (...) < c + 1/2,
\* which in the units of the model is 4c - 2 <= 80 |deltaZ| + pps < 4c + 2
CooldownLaw(deltaZ, printsPerSecond, config) ==
    IF deltaZ.k # "num" \/ printsPerSecond.k # "num"
    THEN Max(config.minMs, config.maxMs)
    ELSE LET scaled == 80 * Abs(deltaZ.v) + printsPerSecond.v
             rounded == CHOOSE c \in 0..(scaled + 1) :
                            4 * c - 2 <= scaled /\ scaled < 4 * c + 2
         IN IF rounded < config.minMs THEN config.minMs
            ELSE IF rounded > config.maxMs /\ config.maxMs >= config.minMs
                 THEN config.maxMs
                 ELSE IF rounded > config.maxMs THEN config.minMs ELSE rounded

\* C12: (as amended) an ENTRY_PROBE decided after the position was closed by an
\* ACCOUNT_UPDATE at event time te has event_time >= te + the clamped cooldown of the
\* metrics the actor had cached when the close arrived
C12_CooldownAfterClose ==
    (/\ exits.close.k = "close"
     /\ exits.close.seq < decision.seq
     /\ EntryProbes(decision.actions) # {})
    => decision.event_time_ms >=
           exits.close.event_time_ms
               + CooldownLaw(exits.close.deltaZ, exits.close.prints_per_second, cooldownConfig)

C12_Witness ==
    /\ exits.exit.k = "exit"
    /\ exits.close.k = "close"
    /\ exits.exit.seq < exits.close.seq
    /\ exits.close.seq < decision.seq
    /\ exits.close.event_time_ms > 0
    /\ EntryProbes(decision.actions) # {}

\* The cooldown law as the specification states it: counted from the time and the metrics
\* of the decision that emitted the exit action
C12_CooldownAfterExitAction ==
    (/\ exits.exit.k = "exit"
     /\ exits.exit.seq < decision.seq
     /\ EntryProbes(decision.actions) # {})
    => decision.event_time_ms >=
           exits.exit.event_time_ms
               + CooldownLaw(exits.exit.deltaZ, exits.exit.prints_per_second, cooldownConfig)

\* C13: a SymbolState with an open position has 0 <= addsUsed <= 2
C13_AddsBound ==
    symbolState.position.k = "position" =>
        /\ symbolState.position.addsUsed >= 0
        /\ symbolState.position.addsUsed <= 2

\* Two adds are used and a third fill arrived with the position still open
C13_Witness ==
    /\ symbolState.position.k = "position"
    /\ symbolState.position.addsUsed = 2
    /\ Len(symbolState.execQuality.recentLatencyMs) >= 3

ReasonIndices(actions, reason) == {i \in DOMAIN actions : actions[i].reason = reason}

\* The decision holds one action with this reason: an EXIT_MARKET, reduce-only, of this side
EmitsOneExit(actions, side, reason) ==
    /\ Cardinality(ReasonIndices(actions, reason)) = 1
    /\ \A i \in ReasonIndices(actions, reason) :
           /\ actions[i].type = "EXIT_MARKET"
           /\ actions[i].side = side
           /\ actions[i].reduceOnly
           /\ actions[i].event_time_ms = decision.event_time_ms

ReversalLong ==
    /\ decision.seq > 0
    /\ decision.metrics.passed
    /\ symbolState.position.k = "position"
    /\ symbolState.position.side = "LONG"
    /\ decision.metrics.deltaZ.v < -30
    /\ decision.metrics.cvdSlope.v < -5

ReversalShort ==
    /\ decision.seq > 0
    /\ decision.metrics.passed
    /\ symbolState.position.k = "position"
    /\ symbolState.position.side = "SHORT"
    /\ decision.metrics.deltaZ.v > 30
    /\ decision.metrics.cvdSlope.v > 5

\* C16: with a LONG position, a passed gate, delta_z < -3 and cvd_slope < -0.5 the decision
\* emits one EXIT_MARKET with side SELL, reduceOnly true and reason reversal_exit_long;
\* with a SHORT position, delta_z > 3 and cvd_slope > 0.5 one with side BUY
C16_ReversalExit ==
    /\ ReversalLong => EmitsOneExit(decision.actions, "SELL", "reversal_exit_long")
    /\ ReversalShort => EmitsOneExit(decision.actions, "BUY", "reversal_exit_short")

C16_Witness ==
    /\ ReversalLong
    /\ Len(decision.actions) = 1
    /\ decision.actions[1].reason = "reversal_exit_long"

\* C21: halted becomes true only in the step that processes SYSTEM_HALT and false only in
\* the step that processes SYSTEM_RESUME; metrics and the other execution events keep it
C21_HaltSticky ==
    [][symbolState'.halted # symbolState.halted =>
           IF symbolState'.halted THEN SystemHalt ELSE SystemResume]_vars

\* A halted actor that has since processed a position, an open order and, last, a metrics
\* envelope
C21_Witness ==
    /\ symbolState.halted
    /\ symbolState.position.k # "null"
    /\ symbolState.openOrders # {}
    /\ decision.seq = stateEvents


\* C29: ENTRY_PROBE is emitted only when the gate passed and the symbol is flat, not
\* halted, without an open entry order, without open orders and out of its cooldown; a
\* failed gate gives exactly one NOOP with reason gate_fail; the list is never empty
C29_EntryProbeGuard ==
    decision.seq > 0 =>
        /\ decision.actions # << >>
        /\ HasType(decision.actions, "ENTRY_PROBE") =>
               /\ decision.metrics.passed
               /\ symbolState.position.k = "null"
               /\ ~symbolState.halted
               /\ ~symbolState.hasOpenEntryOrder
               /\ symbolState.openOrders = {}
               /\ decision.event_time_ms >= symbolState.cooldown_until_ms
        /\ ~decision.metrics.passed =>
               /\ Len(decision.actions) = 1
               /\ decision.actions[1].type = "NOOP"
               /\ decision.actions[1].reason = "gate_fail"

\* An entry emitted after the cooldown of an earlier exit has run out
C29_Witness ==
    /\ HasType(decision.actions, "ENTRY_PROBE")
    /\ symbolState.cooldown_until_ms = 1100
    /\ decision.event_time_ms = 1400

\* The positions of the EXIT_MARKET actions of a decision
ExitIndices(actions) == {i \in DOMAIN actions : actions[i].type = "EXIT_MARKET"}

\* C30: a decision with an open position holds at most one EXIT_MARKET, with the reason
\* of the first exit rule that matched
C30_FirstExitWins ==
    decision.seq > 0 /\ symbolState.position.k = "position" =>
        Cardinality(ExitIndices(decision.actions)) <= 1

\* C38: no decision holds both an EXIT_MARKET and an ADD_POSITION
C38_ExitExcludesAdd ==
    ~(HasType(decision.actions, "EXIT_MARKET") /\ HasType(decision.actions, "ADD_POSITION"))


\* C37: a metrics envelope that directly follows a decision holding an ENTRY_PROBE,
\* with no execution event processed in between, yields no ENTRY_PROBE
C37_NoDuplicateEntry ==
    [][(/\ HasType(decision.actions, "ENTRY_PROBE")
        /\ decision.seq = stateEvents
        /\ decision'.seq = stateEvents')
       => ~HasType(decision'.actions, "ENTRY_PROBE")]_vars
(***************************************************************************)
(* Logger drop window                                                      *)
(***************************************************************************)

MaxLoggerInputs == 2
MaxLoggerSetCalls == 2
MaxSpikes == 1

\* config.loggerQueueLimit and config.loggerDropHaltThreshold of the model
LoggerConfigs == {[queueLimit |-> 1, dropHaltThreshold |-> 2]}

\* new OrchestratorLogger(config); flushing holds from the setImmediate(flush) of
\* enqueue to the end of flush, drain is the stream.once('drain') listener, spikes
\* counts the calls of onDropSpike
NewLogger(config) ==
    [queue |-> 0, flushing |-> FALSE, drain |-> FALSE, dropCount |-> 0, dropWindowCount |-> 0,
     spikes |-> 0,
     queueLimit |-> config.queueLimit, dropHaltThreshold |-> config.dropHaltThreshold]

InitLogger ==
    /\ OrchFields
    /\ orchBudget = [inputs |-> MaxLoggerInputs, setCalls |-> MaxLoggerSetCalls, overlap |-> 1]
    /\ \E config \in LoggerConfigs : logger = NewLogger(config)
    /\ NotLoggedOrchIdle

\* OrchestratorLogger.enqueue(item)
enqueueItem(lg) ==
    IF lg.queue >= lg.queueLimit
    THEN [lg EXCEPT !.dropCount = @ + 1, !.dropWindowCount = @ + 1]
    ELSE [lg EXCEPT !.queue = @ + 1, !.flushing = TRUE]

\* n calls of enqueue in one handler
RECURSIVE enqueueItems(_, _)
enqueueItems(lg, n) == IF n = 0 THEN lg ELSE enqueueItems(enqueueItem(lg), n - 1)

\* OrchestratorLogger.flush(): written items leave the queue; when stream.write
\* returns false the last of them is put back and flush waits for 'drain'
flush(lg, written, ok) ==
    IF ok THEN [lg EXCEPT !.queue = 0, !.flushing = FALSE]
    ELSE [lg EXCEPT !.queue = @ - written + 1, !.flushing = FALSE, !.drain = TRUE]

CanFlush(lg, written, ok) ==
    IF ok THEN written = lg.queue ELSE written \in 1..lg.queue

\* Orchestrator.ingest(metrics) with its logMetrics
LoggerIngest(sym) ==
    /\ ingest(sym)
    /\ logger' = IF FilteredOut(toUpperCase(sym)) THEN logger ELSE enqueueItem(logger)
    /\ UNCHANGED notLoggedOrchVars

\* this.connector.onDebug((event) => { this.logger.logExecution(event.ts, event) })
OnDebug ==
    /\ phase = "poll"
    /\ orchNow < orchBudget.inputs
    /\ orchNow' = orchNow + 1
    /\ logger' = enqueueItem(logger)
    /\ UNCHANGED <<executionSymbols, actors, instances, realizedPnlBySymbol, decisionLedger,
                   setCalls, orchTrace, immediateQueue, phase, setCallCount, orchBudget,
                   notLoggedOrchVars>>

\* The setImmediate callback of an actor: each envelope handled is logged
\* (onDecisionLogged: logDecision, onExecutionLogged: logExecution)
LoggerActorImmediate(n, awaiting) ==
    /\ runImmediate(n, awaiting)
    /\ logger' = enqueueItems(logger, n)
    /\ UNCHANGED notLoggedOrchVars

LoggerActorConnectorResolved(i, n, awaiting) ==
    /\ connectorResolved(i, n, awaiting)
    /\ logger' = enqueueItems(logger, n)
    /\ UNCHANGED notLoggedOrchVars

\* setImmediate(() => this.flush())
LoggerFlush(written, ok) ==
    /\ logger.flushing
    /\ CanFlush(logger, written, ok)
    /\ logger' = flush(logger, written, ok)
    /\ UNCHANGED <<orchVars, notLoggedOrchVars>>

\* stream.once('drain', () => this.flush())
LoggerDrain(written, ok) ==
    /\ logger.drain
    /\ CanFlush(logger, written, ok)
    /\ logger' = flush([logger EXCEPT !.drain = FALSE], written, ok)
    /\ UNCHANGED <<orchVars, notLoggedOrchVars>>

SystemHalt_(dropCount) ==
    [kind |-> "execution", time |-> orchNow, type |-> "SYSTEM_HALT",
     reason |-> <<"logger_drop_spike", dropCount>>]

\* onDropSpike: for (const symbol of this.actors.keys()) ingestExecutionReplay(SYSTEM_HALT)
RECURSIVE onDropSpike(_, _, _, _)
onDropSpike(symbols, insts, immediates_, dropCount) ==
    IF symbols = {} THEN [instances |-> insts, immediateQueue |-> immediates_]
    ELSE LET symbol == CHOOSE s \in symbols :
                           \A other \in symbols : actors[s] <= actors[other]
             e == IF FilteredOut(symbol)
                  THEN [instances |-> insts, immediateQueue |-> immediates_]
                  ELSE actorEnqueue(insts, immediates_, actors[symbol], SystemHalt_(dropCount))
         IN onDropSpike(symbols \ {symbol}, e.instances, e.immediateQueue, dropCount)

\* The symbols that have an actor in the map
ActorKeys == {s \in Symbols : actors[s] # 0}

\* The setInterval callback of the logger's constructor, every 10 s
DropWindowTick ==
    /\ phase = "poll"
    /\ logger.dropWindowCount >= logger.dropHaltThreshold => logger.spikes < MaxSpikes
    /\ LET e == IF logger.dropWindowCount >= logger.dropHaltThreshold
                THEN onDropSpike(ActorKeys, instances, immediateQueue, logger.dropWindowCount)
                ELSE [instances |-> instances, immediateQueue |-> immediateQueue]
       IN /\ instances' = e.instances
          /\ immediateQueue' = e.immediateQueue
    /\ logger' = [logger EXCEPT !.dropWindowCount = 0,
                                !.spikes = IF logger.dropWindowCount >= logger.dropHaltThreshold
                                           THEN @ + 1 ELSE @]
    /\ UNCHANGED <<executionSymbols, actors, realizedPnlBySymbol, decisionLedger, orchNow,
                   setCalls, orchTrace, phase, setCallCount, orchBudget, notLoggedOrchVars>>

\* The longest actor queue: every input and the SYSTEM_HALT of every spike
MaxLoggerQueue == MaxLoggerInputs + MaxSpikes

NextLogger ==
    \/ \E sym \in SymbolInputs : LoggerIngest(sym)
    \/ \E symbol \in Symbols, type \in ExecutionEventTypes : ExecutionEvent(symbol, type)
    \/ OnDebug
    \/ \E symbols \in SymbolLists : SetExecutionSymbols(symbols)
    \/ \E c \in DOMAIN setCalls : CancelAllOpenOrdersResolved(c)
    \/ \E c \in DOMAIN setCalls : SyncStateResolved(c)
    \/ \E c \in DOMAIN setCalls : EnsureSymbolsReadyResolved(c)
    \/ \E c \in DOMAIN setCalls : SetExecutionSymbolsRejected(c)
    \/ \E n \in 0..MaxLoggerQueue, awaiting \in BOOLEAN : LoggerActorImmediate(n, awaiting)
    \/ LoopIteration
    \/ \E i \in DOMAIN instances, n \in 0..MaxLoggerQueue, awaiting \in BOOLEAN :
           LoggerActorConnectorResolved(i, n, awaiting)
    \/ \E i \in DOMAIN instances : ActorConnectorRejected(i)
    \/ \E written \in 1..MaxLoggerInputs, ok \in BOOLEAN : LoggerFlush(written, ok)
    \/ \E written \in 1..MaxLoggerInputs, ok \in BOOLEAN : LoggerDrain(written, ok)
    \/ DropWindowTick

SpecLogger == InitLogger /\ [][NextLogger]_vars

\* The window ends with at least dropHaltThreshold drops counted
DropSpike ==
    /\ logger.dropWindowCount >= logger.dropHaltThreshold
    /\ logger'.dropWindowCount = 0

\* The last envelope instance i was given is the SYSTEM_HALT of the spike
ReceivedHalt(insts, i, dropCount) ==
    /\ insts[i].queue # << >>
    /\ insts[i].queue[Len(insts[i].queue)] = SystemHalt_(dropCount)

\* C14: when a 10 s window ends with at least drop_halt_threshold dropped log enqueues,
\* every actor that exists then receives a SYSTEM_HALT envelope with reason
\* logger_drop_spike:<n>, and the window counter is reset
C14_LoggerDropHalt ==
    [][DropSpike => \A symbol \in ActorKeys :
                        ReceivedHalt(instances', actors[symbol], logger.dropWindowCount)]_vars

(***************************************************************************)
(* Replay                                                                  *)
(***************************************************************************)

MaxLogLines == 2
ReplayRuns == 2

\* Lines of the metrics log (logged envelopes, with gate and metrics) and of the
\* execution log (ACCOUNT_UPDATE events)
LogLines ==
    {[kind |-> "metrics", event_time_ms |-> t, metrics |-> metrics] :
        t \in Times, metrics \in StateMetrics}
    \cup {[kind |-> "execution", event_time_ms |-> t, positionAmt |-> amt,
           unrealizedPnL |-> pnl] : t \in Times, amt \in {0, 1}, pnl \in {0, 20}}

\* [...metrics, ...execution].sort((a, b) => a.event_time_ms - b.event_time_ms) leaves
\* the log as it is
Sorted(log) == \A i \in 1..(Len(log) - 1) : log[i].event_time_ms <= log[i + 1].event_time_ms

\* The record onDecisionLogged pushes to the decision ledger
DecisionRecord(canonical_time_ms, metrics, actions, state) ==
    [canonical_time_ms |-> canonical_time_ms, gate |-> metrics.passed, actions |-> actions,
     stateSnapshot |-> [halted |-> state.halted, cooldown_until_ms |-> state.cooldown_until_ms,
                        hasOpenEntryOrder |-> state.hasOpenEntryOrder,
                        openOrders |-> Cardinality(state.openOrders),
                        position |-> state.position]]

\* stableSerialize(getStateSnapshot()): a Map has no own enumerable keys and is
\* serialized as {}
stableSerialize(state) == [state EXCEPT !.openOrders = "{}"]

\* hashObject of the ledger and of the state snapshot: equal hashes are equal serializations
ReplayResult(ledger, state) ==
    [decisionHash |-> ledger, finalStateHash |-> stableSerialize(state)]

InitReplay ==
    /\ replay = [run |-> 1, position |-> 1, log |-> << >>, ledger |-> << >>, results |-> << >>]
    /\ symbolState = NewSymbolState
    /\ stateEvents = 0
    /\ ActorFields
    /\ NotReplayedStateIdle

\* The line the loop of replayFromFiles handles next: in the first run any line that keeps
\* the log sorted, in a later run the line of the same log
NextLine(line) ==
    /\ replay.run <= ReplayRuns
    /\ IF replay.run = 1
       THEN /\ Len(replay.log) < MaxLogLines
            /\ Sorted(Append(replay.log, line))
       ELSE /\ replay.position <= Len(replay.log)
            /\ line = replay.log[replay.position]

\* for (const item of merged): ingestLoggedMetrics or ingestExecutionReplay, and the
\* actor's handling of the envelope; price is what connector.expectedPrice returns
ReplayLine(line, price) ==
    /\ NextLine(line)
    /\ IF line.kind = "metrics"
       THEN onMetrics(line.event_time_ms, line.metrics, price)
       ELSE accountUpdate(line.event_time_ms, line.positionAmt, line.unrealizedPnL)
    /\ replay' = [replay EXCEPT
                     !.log = IF replay.run = 1 THEN Append(@, line) ELSE @,
                     !.position = @ + 1,
                     !.ledger = IF line.kind = "metrics"
                                THEN Append(@, DecisionRecord(line.event_time_ms, line.metrics,
                                                              decision'.actions, symbolState))
                                ELSE @]
    /\ UNCHANGED notReplayedStateVars

\* The end of replayFromFiles (flush, the two hashes) and, for the next run,
\* resetForReplay with a new actor on the first line
ReplayEnd ==
    /\ replay.run <= ReplayRuns
    /\ replay.log # << >>
    /\ replay.position > Len(replay.log)
    /\ replay' = [replay EXCEPT !.run = @ + 1, !.position = 1, !.ledger = << >>,
                                !.results = Append(@, ReplayResult(replay.ledger, symbolState))]
    /\ symbolState' = NewSymbolState
    /\ lastDeltaZ' = Num(0)
    /\ lastPrintsPerSecond' = Num(0)
    /\ decision' = NoDecision
    /\ exits' = NoExits
    /\ stateEvents' = 0
    /\ UNCHANGED <<cooldownConfig, notReplayedStateVars>>

NextReplay ==
    \/ \E line \in LogLines, price \in ExpectedPrices : ReplayLine(line, price)
    \/ ReplayEnd

SpecReplay == InitReplay /\ [][NextReplay]_vars

\* C15: for the same logs and configuration two replay runs produce the same decisionHash
\* and the same finalStateHash
C15_ReplayDeterminism ==
    Len(replay.results) = ReplayRuns => replay.results[1] = replay.results[2]

(***************************************************************************)
(* Depth snapshot requests                                                 *)
(***************************************************************************)

SNAPSHOT_MIN_INTERVAL_MS == 60000
MIN_BACKOFF_MS == 5000
MAX_BACKOFF_MS == 120000

MaxSnapshotCalls == 3
MaxClockSteps == 2

\* Steps of Date.now() between two handlers, in ms
ClockSteps == {1000, 5000, 60000}

\* The Retry-After header of a 429 or 418 response: absent, seconds, or an HTTP date
RetryAfterHeaders == {"", "1", "Wed, 21 Oct 2015 07:28:00 GMT"}

\* parseInt(header || '60', 10)
parseInt(header) ==
    CASE header = "" -> Num(60)
      [] header = "1" -> Num(1)
      [] OTHER -> NaN

\* HTTP statuses of the depth response; 0 stands for fetch throwing
HttpStatuses == {200, 418, 429, 500, 0}

\* a < b of JavaScript numbers: false when b is NaN
LessThan(a, b) == b.k = "num" /\ a < b.v

\* getMeta(symbol): the fields fetchSnapshot uses
NewMeta ==
    [lastSnapshotAttempt |-> 0, backoffMs |-> MIN_BACKOFF_MS, consecutiveErrors |-> 0,
     isResyncing |-> FALSE]

NoSnapshotCall == [symbol |-> "", outcome |-> "none", uiState |-> "", caller |-> ""]

InitSnapshot ==
    /\ snap = [now |-> 1000, steps |-> 0, globalBackoffUntil |-> Num(0),
               meta |-> [s \in Symbols |-> NewMeta],
               uiState |-> [s \in Symbols |-> "UNSEEDED"],
               seeded |-> [s \in Symbols |-> FALSE],
               inFlight |-> [s \in Symbols |-> 0], calls |-> 0, requests |-> 0, lastCall |-> NoSnapshotCall]
    /\ NotSnapIdle

\* Date.now() advances
ClockStep(ms) ==
    /\ snap.steps < MaxClockSteps
    /\ snap' = [snap EXCEPT !.now = @ + ms, !.steps = @ + 1]
    /\ UNCHANGED notSnapVars

\* Mutant of SkipGlobal: an UNSEEDED book bypasses the global backoff as well
SkipGlobalUnlessUnseeded(symbol) ==
    LessThan(snap.now, snap.globalBackoffUntil) /\ snap.uiState[symbol] # "UNSEEDED"

\* if (now < globalBackoffUntil) return;
SkipGlobal(symbol) == LessThan(snap.now, snap.globalBackoffUntil)

\* The per-symbol throttle, not applied to an UNSEEDED book
SkipLocal(symbol) ==
    LET sinceAttempt == snap.now - snap.meta[symbol].lastSnapshotAttempt
    IN /\ snap.uiState[symbol] # "UNSEEDED"
       /\ sinceAttempt < SNAPSHOT_MIN_INTERVAL_MS
       /\ sinceAttempt < snap.meta[symbol].backoffMs

\* fetchSnapshot(symbol) up to its await fetch(...), called by caller in state s
fetchSnapshot(s, symbol, caller) ==
    LET ui == s.uiState[symbol]
        called(outcome) == [symbol |-> symbol, outcome |-> outcome, uiState |-> ui,
                            caller |-> caller]
    IN IF SkipGlobal(symbol) THEN [s EXCEPT !.lastCall = called("skip_global")]
       ELSE IF SkipLocal(symbol) THEN [s EXCEPT !.lastCall = called("skip_local")]
       ELSE [s EXCEPT !.meta[symbol].lastSnapshotAttempt = s.now,
                      !.meta[symbol].isResyncing = TRUE,
                      !.uiState[symbol] = "RESYNCING",
                      !.inFlight[symbol] = @ + 1,
                      !.requests = @ + 1,
                      !.lastCall = called("request")]

\* The outcomes applyDepthUpdate can have on a book in state ui: buffered while
\* lastUpdateId is 0 (no snapshot applied yet: seeded is false), UNSEEDED or RESYNCING,
\* otherwise applied, dropped or (returning false) desync
DepthOutcomes(ui, seeded) ==
    IF ~seeded \/ ui \in {"UNSEEDED", "RESYNCING"} THEN {"buffered"}
    ELSE {"applied", "dropped", "desync"}

\* Mutant of WantsSnapshot: a desync asks for a snapshot while one is being fetched
WantsSnapshotAlways(s, symbol, outcome) ==
    outcome = "desync" \/ s.uiState[symbol] = "UNSEEDED"

\* handleMsg (depthUpdate): if (!success) { if (!meta.isResyncing) fetchSnapshot(s) }
\* else if (ob.uiState === 'UNSEEDED') { if (!meta.isResyncing) fetchSnapshot(s) }
WantsSnapshot(s, symbol, outcome) ==
    /\ outcome = "desync" \/ s.uiState[symbol] = "UNSEEDED"
    /\ ~s.meta[symbol].isResyncing

\* handleMsg (depthUpdate) for a message of symbol: applyDepthUpdate with the given
\* outcome (applyDelta turns a STALE book LIVE), then the snapshot request if wanted;
\* lastCall is "not_called" when the handler finds the symbol resyncing
DepthMessage(symbol, outcome) ==
    LET handled == [snap EXCEPT !.calls = @ + 1,
                                !.lastCall = NoSnapshotCall,
                                !.uiState[symbol] =
                                    IF outcome = "applied" /\ @ = "STALE" THEN "LIVE" ELSE @]
        resyncing == [handled EXCEPT !.lastCall =
                         [symbol |-> symbol, outcome |-> "not_called",
                          uiState |-> snap.uiState[symbol], caller |-> outcome]]
    IN /\ snap.calls < MaxSnapshotCalls
       /\ outcome \in DepthOutcomes(snap.uiState[symbol], snap.seeded[symbol])
       /\ snap' = IF WantsSnapshot(handled, symbol, outcome)
                  THEN fetchSnapshot(handled, symbol, outcome)
                  ELSE IF outcome = "desync" \/ snap.uiState[symbol] = "UNSEEDED"
                  THEN resyncing
                  ELSE handled
       /\ UNCHANGED notSnapVars

\* wss.on('connection'): if (ob.uiState === 'UNSEEDED') fetchSnapshot(s)
ClientJoin(symbol) ==
    LET handled == [snap EXCEPT !.calls = @ + 1, !.lastCall = NoSnapshotCall]
    IN /\ snap.calls < MaxSnapshotCalls
       /\ snap' = IF snap.uiState[symbol] = "UNSEEDED"
                  THEN fetchSnapshot(handled, symbol, "join")
                  ELSE handled
       /\ UNCHANGED notSnapVars

\* Mutant of DoubleBackoff: the doubling is not capped
DoubleBackoffUncapped(backoffMs) == backoffMs * 2

\* Math.min(meta.backoffMs * 2, MAX_BACKOFF_MS)
DoubleBackoff(backoffMs) == Min(backoffMs * 2, MAX_BACKOFF_MS)

\* Date.now() + retryAfter
BackoffUntil(nowMs, retryAfter) ==
    IF retryAfter.k = "num" THEN Num(nowMs + retryAfter.v * 1000) ELSE NaN

\* fetchSnapshot(symbol) from the response of its request on; the Retry-After header
\* is read from a 429 or 418 response only
SnapshotResponse(symbol, status, header) ==
    LET landed == [snap EXCEPT !.inFlight[symbol] = @ - 1, !.lastCall = NoSnapshotCall]
        meta == snap.meta[symbol]
    IN /\ snap.inFlight[symbol] > 0
       /\ status \in {429, 418} \/ header = ""
       /\ snap' =
              CASE status \in {429, 418} ->
                       [landed EXCEPT !.globalBackoffUntil = BackoffUntil(snap.now, parseInt(header)),
                                      !.meta[symbol].backoffMs = DoubleBackoff(@),
                                      !.uiState[symbol] = "STALE"]
                [] status = 200 ->
                       [landed EXCEPT !.meta[symbol].backoffMs = MIN_BACKOFF_MS,
                                      !.meta[symbol].consecutiveErrors = 0,
                                      !.meta[symbol].isResyncing = FALSE,
                                      !.seeded[symbol] = TRUE,
                                      !.uiState[symbol] = "LIVE"]
                [] status = 0 ->
                       [landed EXCEPT !.meta[symbol].backoffMs = DoubleBackoff(@)]
                [] OTHER ->
                       [landed EXCEPT !.meta[symbol].backoffMs = DoubleBackoff(@),
                                      !.meta[symbol].consecutiveErrors = @ + 1,
                                      !.uiState[symbol] =
                                          IF meta.consecutiveErrors + 1 > 3 THEN "STALE"
                                          ELSE "RESYNCING"]
       /\ UNCHANGED notSnapVars

NextSnapshot ==
    \/ \E ms \in ClockSteps : ClockStep(ms)
    \/ \E symbol \in Symbols, outcome \in {"buffered", "applied", "dropped", "desync"} :
           DepthMessage(symbol, outcome)
    \/ \E symbol \in Symbols : ClientJoin(symbol)
    \/ \E symbol \in Symbols, status \in HttpStatuses, header \in RetryAfterHeaders :
           SnapshotResponse(symbol, status, header)

SpecSnapshot == InitSnapshot /\ [][NextSnapshot]_vars

\* C17: no snapshot request is issued while now < global_backoff_until, for an UNSEEDED
\* book as for any other; an UNSEEDED book bypasses the per-symbol throttle only
C17_GlobalRateLimitGate ==
    [][snap'.requests # snap.requests =>
           ~(snap.globalBackoffUntil.k = "num" /\ snap.now < snap.globalBackoffUntil.v)]_vars

\* An UNSEEDED book's call is refused by the global backoff
C17_Witness ==
    /\ snap.lastCall.outcome = "skip_global"
    /\ snap.lastCall.uiState = "UNSEEDED"
    /\ snap.globalBackoffUntil.k = "num" /\ snap.now < snap.globalBackoffUntil.v

\* C25: for a LIVE or STALE book, a snapshot call made while
\* now - last_attempt < max(60000, backoff_ms) issues no request
C25_LocalThrottle ==
    [][snap'.requests # snap.requests =>
           LET symbol == snap'.lastCall.symbol
               meta == snap.meta[symbol]
           IN ~(/\ snap'.lastCall.uiState \in {"LIVE", "STALE"}
                /\ snap.now - meta.lastSnapshotAttempt
                       < Max(SNAPSHOT_MIN_INTERVAL_MS, meta.backoffMs))]_vars

\* The values backoffMs takes by doubling from MIN_BACKOFF_MS, and the cap
BackoffValues == {MIN_BACKOFF_MS * m : m \in {1, 2, 4, 8, 16}} \cup {MAX_BACKOFF_MS}

\* C26: backoff_ms of every symbol lies in [5000, 120000]; a 429/418 response and every
\* other failed attempt double it, capped at 120000; a successful snapshot resets it to
\* 5000 and clears consecutive_errors
C26_BackoffRange ==
    /\ [](/\ \A s \in Symbols : snap.meta[s].backoffMs \in MIN_BACKOFF_MS..MAX_BACKOFF_MS
          /\ \A b \in BackoffValues : DoubleBackoff(b) \in MIN_BACKOFF_MS..MAX_BACKOFF_MS)
    /\ [][\A s \in Symbols : snap'.inFlight[s] < snap.inFlight[s] =>
              IF snap'.meta[s].isResyncing
              THEN snap'.meta[s].backoffMs
                       = IF snap.meta[s].backoffMs * 2 < 120000
                         THEN snap.meta[s].backoffMs * 2 ELSE 120000
              ELSE /\ snap'.meta[s].backoffMs = 5000
                   /\ snap'.meta[s].consecutiveErrors = 0]_vars

\* One symbol failed an attempt and has its backoff doubled, another was seeded
C26_Witness ==
    \E s, t \in Symbols :
        /\ snap.meta[s].backoffMs = 10000 /\ snap.meta[s].isResyncing /\ snap.inFlight[s] = 0
        /\ snap.seeded[t] /\ snap.meta[t].backoffMs = 5000 /\ ~snap.meta[t].isResyncing

\* C28: a desync invokes fetchSnapshot exactly when the symbol is not resyncing, an
\* UNSEEDED book asks for its seed on a buffered message, one message makes at most one
\* request, and at most one request per symbol is in flight
C28_OneRequestInFlight ==
    /\ [](\A s \in Symbols : snap.inFlight[s] <= 1)
    /\ [][/\ snap'.requests <= snap.requests + 1
          /\ snap'.calls # snap.calls =>
                 \A symbol \in Symbols, outcome \in {"buffered", "desync"} :
                     DepthMessage(symbol, outcome) =>
                         LET invoked == snap'.lastCall.outcome
                                            \in {"skip_global", "skip_local", "request"}
                         IN IF outcome = "desync"
                            THEN invoked <=> ~snap.meta[symbol].isResyncing
                            ELSE snap.uiState[symbol] = "UNSEEDED" => invoked]_vars

\* A desync of a symbol that is still resyncing after a refused request made no call
C28_Witness ==
    /\ snap.lastCall.outcome = "not_called" /\ snap.lastCall.caller = "desync"
    /\ snap.meta[snap.lastCall.symbol].isResyncing
    /\ snap.inFlight[snap.lastCall.symbol] = 0
    /\ snap.requests = 2

\* C36: when the response of a snapshot request has been handled, with or without
\* success, the symbol is no longer marked as resyncing, so that a later depth message
\* can start a new attempt
C36_ResyncCleared ==
    [][\A s \in Symbols :
           snap'.inFlight[s] < snap.inFlight[s] => ~snap'.meta[s].isResyncing]_vars

(***************************************************************************)
(* Orchestrator.executeActions                                             *)
(***************************************************************************)

MaxDecisions == 2

\* The action types of one decision, in the order of its actions array
ActionLists ==
    {<<"NOOP">>, <<"ENTRY_PROBE">>, <<"ADD_POSITION">>, <<"EXIT_MARKET">>,
     <<"CANCEL_OPEN_ENTRY_ORDERS">>, <<"CANCEL_OPEN_ENTRY_ORDERS", "EXIT_MARKET">>}

\* actor.state.openOrders at the time of the decision: orderId and reduceOnly
ExecOpenOrders ==
    SUBSET {[orderId |-> 1, reduceOnly |-> FALSE], [orderId |-> 2, reduceOnly |-> FALSE],
            [orderId |-> 3, reduceOnly |-> TRUE]}

\* The orders of a set as a sequence by orderId, the order of the map's values()
RECURSIVE OrdersSeq(_)
OrdersSeq(orders) ==
    IF orders = {} THEN << >>
    ELSE LET first == CHOOSE o \in orders : \A p \in orders : o.orderId <= p.orderId
         IN <<first>> \o OrdersSeq(orders \ {first})

NoAwait == [call |-> "none", orders |-> << >>, tag |-> ""]

InitExec ==
    /\ exec \in [enabled : BOOLEAN, connected : BOOLEAN, openOrders : ExecOpenOrders,
                 position : BOOLEAN, decisions : {0}, actions : {<< >>}, awaiting : {NoAwait},
                 placeOrderCalls : {0}, cancelOrderCalls : {0}, whyNotSent : {0},
                 expectedByOrderId : {{}}]
    /\ NotExecIdle

\* await this.connector.cancelOrder(...) for the first of orders
cancelOrderCall(e, orders) ==
    [e EXCEPT !.awaiting = [call |-> "cancelOrder", orders |-> Tail(orders), tag |-> ""],
              !.cancelOrderCalls = @ + 1]

\* await this.connector.placeOrder(...)
placeOrderCall(e, tag) ==
    [e EXCEPT !.awaiting = [call |-> "placeOrder", orders |-> << >>, tag |-> tag],
              !.placeOrderCalls = @ + 1]

\* The entry orders the CANCEL_OPEN_ENTRY_ORDERS loop cancels, in its order
EntryOrders(e) == OrdersSeq({o \in e.openOrders : ~o.reduceOnly})

\* for (const action of actions) from the head of e.actions up to the next await
RECURSIVE actionsLoop(_)
actionsLoop(e) ==
    IF e.actions = << >> THEN [e EXCEPT !.awaiting = NoAwait]
    ELSE LET type == Head(e.actions)
             rest == [e EXCEPT !.actions = Tail(@), !.awaiting = NoAwait]
         IN CASE type = "NOOP" -> actionsLoop(rest)
              [] type # "NOOP" /\ ~e.enabled ->
                     actionsLoop([rest EXCEPT !.whyNotSent = @ + 1])
              [] type # "NOOP" /\ e.enabled /\ ~e.connected ->
                     actionsLoop([rest EXCEPT !.whyNotSent = @ + 1])
              [] OTHER ->
                     CASE type = "CANCEL_OPEN_ENTRY_ORDERS" ->
                              IF EntryOrders(e) = << >> THEN actionsLoop(rest)
                              ELSE cancelOrderCall(rest, EntryOrders(e))
                       [] type = "EXIT_MARKET" ->
                              IF ~e.position THEN actionsLoop(rest)
                              ELSE placeOrderCall(rest, "exit")
                       [] type = "ENTRY_PROBE" -> placeOrderCall(rest, "entry")
                       [] OTHER -> placeOrderCall(rest, "add")

\* executeActions(symbol, actions) up to its first await
ExecuteActions(actions) ==
    /\ exec.decisions < MaxDecisions
    /\ exec.awaiting = NoAwait
    /\ exec' = actionsLoop([exec EXCEPT !.decisions = @ + 1, !.actions = actions])
    /\ UNCHANGED notExecVars

\* executeActions from the fulfilment of an awaited cancelOrder on: the next order of
\* the loop, or the next action
CancelOrderResolved ==
    /\ exec.awaiting.call = "cancelOrder"
    /\ exec' = IF exec.awaiting.orders # << >>
               THEN cancelOrderCall(exec, exec.awaiting.orders)
               ELSE actionsLoop(exec)
    /\ UNCHANGED notExecVars

\* executeActions from the fulfilment of an awaited placeOrder on
PlaceOrderResolved ==
    /\ exec.awaiting.call = "placeOrder"
    /\ exec' = actionsLoop([exec EXCEPT !.expectedByOrderId =
                                            @ \cup {<<exec.decisions, exec.awaiting.tag>>}])
    /\ UNCHANGED notExecVars

\* The awaited connector call rejects: executeActions throws
ConnectorCallRejected ==
    /\ exec.awaiting.call # "none"
    /\ exec' = [exec EXCEPT !.actions = << >>, !.awaiting = NoAwait]
    /\ UNCHANGED notExecVars

\* ExecutionConnector.setExecutionEnabled
SetExecutionEnabled(enabled) ==
    /\ exec.enabled # enabled
    /\ exec' = [exec EXCEPT !.enabled = enabled]
    /\ UNCHANGED notExecVars

\* The connector's connection is established or lost
SetConnected(connected) ==
    /\ exec.connected # connected
    /\ exec' = [exec EXCEPT !.connected = connected]
    /\ UNCHANGED notExecVars

NextExec ==
    \/ \E actions \in ActionLists : ExecuteActions(actions)
    \/ CancelOrderResolved
    \/ PlaceOrderResolved
    \/ ConnectorCallRejected
    \/ \E enabled \in BOOLEAN : SetExecutionEnabled(enabled)
    \/ \E connected \in BOOLEAN : SetConnected(connected)

SpecExec == InitExec /\ [][NextExec]_vars

\* C18: while execution is disabled or the connector is not connected, no placeOrder
\* and no cancelOrder call is made and no expected-order metadata is recorded
C18_ExecutionGate ==
    [][(\/ exec'.placeOrderCalls # exec.placeOrderCalls
        \/ exec'.cancelOrderCalls # exec.cancelOrderCalls
        \/ exec'.expectedByOrderId # exec.expectedByOrderId)
           => exec.enabled /\ exec.connected]_vars

(***************************************************************************)
(* ExecutionConnector: user stream disconnect, reconnect and state sync    *)
(***************************************************************************)

MaxDisconnects == 2

\* this.symbols in its iteration order
ConnSymbols == <<"BTCUSDT", "ETHUSDT">>

\* this.emitEvent for every symbol of this.symbols
emitForAll(events, type) ==
    events \o [i \in 1..Len(ConnSymbols) |-> [type |-> type, symbol |-> ConnSymbols[i]]]

\* A connected connector: the user stream is open and no reconnect is in progress
InitConn ==
    /\ conn = [state |-> "CONNECTED", userWs |-> "open", reconnectingUserStream |-> FALSE,
               awaiting |-> "none", syncing |-> << >>, events |-> << >>, disconnects |-> 0]
    /\ NotConnIdle

\* handleUserStreamDisconnect leaves through its finally block
finally(c) == [c EXCEPT !.reconnectingUserStream = FALSE, !.awaiting = "none", !.syncing = << >>]

\* The user stream socket emits close or error: handleUserStreamDisconnect up to its
\* first await
UserStreamDisconnect ==
    /\ conn.userWs # "closed"
    /\ conn.disconnects < MaxDisconnects
    /\ conn' =
           LET down == [conn EXCEPT !.userWs = "closed", !.disconnects = @ + 1]
           IN IF conn.reconnectingUserStream THEN down
              ELSE [down EXCEPT !.reconnectingUserStream = TRUE,
                                !.state = "ERROR",
                                !.events = emitForAll(@, "SYSTEM_HALT"),
                                !.awaiting = "listenKey"]
    /\ UNCHANGED notConnVars

\* The new socket of connectUserWs opens
UserWsOpen ==
    /\ conn.userWs = "connecting"
    /\ conn' = [conn EXCEPT !.userWs = "open", !.state = "CONNECTED"]
    /\ UNCHANGED notConnVars

\* createListenKey settles: connectUserWs and syncState up to its Promise.all, or the
\* rejection leaves the handler
ListenKeyResolved(ok) ==
    /\ conn.awaiting = "listenKey"
    /\ conn' = IF ok THEN [conn EXCEPT !.userWs = "connecting", !.awaiting = "balances"]
               ELSE finally(conn)
    /\ UNCHANGED notConnVars

\* syncState: the ACCOUNT_UPDATE of the next symbol, then the await of its open orders
syncSymbol(c, symbols) ==
    [c EXCEPT !.events = Append(@, [type |-> "ACCOUNT_UPDATE", symbol |-> Head(symbols)]),
              !.syncing = symbols,
              !.awaiting = "openOrders"]

\* handleUserStreamDisconnect after await this.syncState()
resume(c) == finally([c EXCEPT !.events = emitForAll(@, "SYSTEM_RESUME")])

\* The balance and position requests of syncState settle
BalancesResolved(ok) ==
    /\ conn.awaiting = "balances"
    /\ conn' = IF ok THEN syncSymbol(conn, ConnSymbols) ELSE finally(conn)
    /\ UNCHANGED notConnVars

\* The open orders request of one symbol settles: its OPEN_ORDERS_SNAPSHOT when the
\* response is an array, then the next symbol or the end of syncState
OpenOrdersResolved(ok, isArray) ==
    /\ conn.awaiting = "openOrders"
    /\ conn' =
           LET symbol == Head(conn.syncing)
               synced == IF isArray
                         THEN [conn EXCEPT !.events =
                                   Append(@, [type |-> "OPEN_ORDERS_SNAPSHOT",
                                              symbol |-> symbol])]
                         ELSE conn
           IN IF ~ok THEN finally(conn)
              ELSE IF Tail(conn.syncing) # << >> THEN syncSymbol(synced, Tail(conn.syncing))
              ELSE resume(synced)
    /\ UNCHANGED notConnVars

NextConn ==
    \/ UserStreamDisconnect
    \/ UserWsOpen
    \/ \E ok \in BOOLEAN : ListenKeyResolved(ok)
    \/ \E ok \in BOOLEAN : BalancesResolved(ok)
    \/ \E ok \in BOOLEAN, isArray \in BOOLEAN : OpenOrdersResolved(ok, isArray)

SpecConn == InitConn /\ [][NextConn]_vars

\* The events emitted by the step
NewEvents == SubSeq(conn'.events, Len(conn.events) + 1, Len(conn'.events))

\* The positions of the events of a type for a symbol
EventsOf(events, type, symbol) ==
    {i \in DOMAIN events : events[i].type = type /\ events[i].symbol = symbol}

\* C22: a disconnect of the user stream emits SYSTEM_HALT for every symbol; SYSTEM_RESUME
\* is emitted only when the user stream is connected again and, for its symbol, after an
\* ACCOUNT_UPDATE and an OPEN_ORDERS_SNAPSHOT that follow the SYSTEM_HALT
C22_HaltThenResume ==
    [][/\ conn.userWs # "closed" /\ conn'.userWs = "closed" =>
              \A i \in DOMAIN ConnSymbols :
                  EventsOf(NewEvents, "SYSTEM_HALT", ConnSymbols[i]) # {}
       /\ \A i \in DOMAIN NewEvents :
              NewEvents[i].type = "SYSTEM_RESUME" =>
                  /\ conn.userWs = "open"
                  /\ \E h \in EventsOf(conn'.events, "SYSTEM_HALT", NewEvents[i].symbol) :
                         /\ \E a \in EventsOf(conn'.events, "ACCOUNT_UPDATE",
                                              NewEvents[i].symbol) : h < a
                         /\ \E o \in EventsOf(conn'.events, "OPEN_ORDERS_SNAPSHOT",
                                              NewEvents[i].symbol) : h < o]_vars

(***************************************************************************)
(* Order book: the buffer of an unseeded or resyncing book                 *)
(***************************************************************************)

MaxBufferCalls == 2
MaxSeeds == 1

\* The depth updates of the buffer model: bids only, first id not after the last id
BufferUpdates ==
    {d \in DepthUpdates : d.a = << >> /\ d.U <= d.u /\ d.b \in {<< >>, <<<<"10", "1">>>>, <<<<"10", "0">>>>}}

\* The snapshots of the buffer model: one bid level
BufferSnapshots == {s \in DepthCaches : s.asks = << >> /\ s.bids # << >>}

\* The i-th of the depth updates that filled the buffer before the model starts
PrefillUpdate(i) == [U |-> i, u |-> i, b |-> << >>, a |-> << >>]

\* A book that has buffered n updates since it was created or went out of sync
Prefilled(state, n) ==
    [state EXCEPT !.buffer = [i \in 1..n |-> PrefillUpdate(i)], !.stats.buffered = n]

\* A new book and a book seeded at id 1 in each of the states fetchSnapshot and
\* applyDelta leave it in
SeededBook(ui) ==
    [createOrderbookState EXCEPT !.lastUpdateId = 1, !.bids = MapSet(EmptyMap, 10, 1),
                                 !.uiState = ui]
BufferStarts == {createOrderbookState, SeededBook("RESYNCING")}

\* The last handler call and the numbers of depth messages and of snapshots handled
BufferCall(branch, U, u, ret, messages, snapshots) ==
    [branch |-> branch, U |-> U, u |-> u, ret |-> ret, prevId |-> ob.lastUpdateId,
     prevUi |-> ob.uiState, messages |-> messages, snapshots |-> snapshots]

NoBufferCall ==
    [branch |-> "none", U |-> 0, u |-> 0, ret |-> TRUE, prevId |-> 0, prevUi |-> "UNSEEDED",
     messages |-> 0, snapshots |-> 0]

\* Books that buffer, empty or one update short of the limit, and books that do not
InitBuffer ==
    /\ ob \in {Prefilled(s, n) : s \in BufferStarts, n \in {0, BUFFER_LIMIT - 1}}
               \cup {SeededBook("LIVE"), SeededBook("STALE")}
    /\ call = NoBufferCall
    /\ BcastIdle /\ GateIdle /\ ActorIdle /\ ExtIdle

\* A new book, or a book marked RESYNCING, with an empty buffer
InitSeed ==
    /\ ob \in BufferStarts
    /\ call = NoBufferCall
    /\ BcastIdle /\ GateIdle /\ ActorIdle /\ ExtIdle

\* handleMsg (depthUpdate): applyDepthUpdate(ob, d)
DepthUpdateMessage(update) ==
    /\ call.messages < MaxBufferCalls
    /\ LET r == applyDepthUpdate(ob, update)
       IN /\ ob' = r.state
          /\ call' = BufferCall(r.branch, update.U, update.u, r.ret, call.messages + 1,
                              call.snapshots)
    /\ UNCHANGED <<bcastVars, gateVars, actorVars, extVars>>

\* fetchSnapshot, success: applySnapshot(ob, data)
SnapshotFetched(snapshot) ==
    /\ call.snapshots < MaxSeeds
    /\ ob' = applySnapshot(ob, snapshot)
    /\ call' = BufferCall("snapshot", 0, snapshot.lastUpdateId, TRUE, call.messages,
                          call.snapshots + 1)
    /\ UNCHANGED <<bcastVars, gateVars, actorVars, extVars>>

\* fetchSnapshot: ob.uiState = 'RESYNCING' before its request
ResyncMark ==
    /\ ob.uiState \notin {"RESYNCING", "UNSEEDED"}
    /\ ob' = [ob EXCEPT !.uiState = "RESYNCING"]
    /\ call' = BufferCall("mark", 0, 0, TRUE, call.messages, call.snapshots)
    /\ UNCHANGED <<bcastVars, gateVars, actorVars, extVars>>

NextBuffer == \E update \in BufferUpdates : DepthUpdateMessage(update)

SpecBuffer == InitBuffer /\ [][NextBuffer]_vars

NextSeed ==
    \/ \E update \in BufferUpdates : DepthUpdateMessage(update)
    \/ \E snapshot \in BufferSnapshots : SnapshotFetched(snapshot)
    \/ ResyncMark

SpecSeed == InitSeed /\ [][NextSeed]_vars

\* The step handles a depth message
IsDepthStep == call'.messages = call.messages + 1

\* C23: a depth update that reaches an UNSEEDED or RESYNCING book is appended to the
\* buffer and reported as buffered, levels and lastUpdateId are kept, and the buffer
\* holds at most 1000 updates, the oldest leaving when the 1001st arrives
C23_BufferWhileUnseeded ==
    [][/\ Len(ob'.buffer) <= 1000
       /\ IsDepthStep /\ ob.uiState \in {"UNSEEDED", "RESYNCING"} =>
              /\ call'.branch = "buffered" /\ call'.ret
              /\ ob'.bids = ob.bids /\ ob'.asks = ob.asks
              /\ ob'.lastUpdateId = ob.lastUpdateId
              /\ ob'.uiState = ob.uiState
              /\ \E d \in BufferUpdates :
                     /\ d.U = call'.U /\ d.u = call'.u
                     /\ ob'.buffer = IF Len(ob.buffer) = 1000
                                     THEN Append(Tail(ob.buffer), d)
                                     ELSE Append(ob.buffer, d)]_vars

\* A full buffer has taken one more update: the first update of the fill is gone
C23_Witness ==
    /\ call.branch = "buffered"
    /\ call.prevUi = "RESYNCING"
    /\ Len(ob.buffer) = 1000
    /\ ob.buffer[1] = PrefillUpdate(2)
    /\ ob.bids = MapSet(EmptyMap, 10, 1)

\* The levels of a snapshot side with a size above zero, the last one of a price counting
PositiveLevels(levels) ==
    LET positive == {i \in DOMAIN levels : parseFloat(levels[i][2]) > 0}
        last(p) == CHOOSE i \in positive :
                       /\ parseFloat(levels[i][1]) = p
                       /\ \A j \in positive : parseFloat(levels[j][1]) = p => j <= i
    IN [p \in {parseFloat(levels[i][1]) : i \in positive} |-> parseFloat(levels[last(p)][2])]

\* The book after the buffered updates from position i on: an update whose last id is
\* not above the snapshot's id is skipped, the others go through applyDepthUpdate
RECURSIVE SeedFrom(_, _, _, _)
SeedFrom(state, buffered, snapshotId, i) ==
    IF i > Len(buffered) THEN state
    ELSE SeedFrom(IF buffered[i].u <= snapshotId THEN state
                  ELSE applyDepthUpdate(state, buffered[i]).state,
                  buffered, snapshotId, i + 1)

\* C24: applySnapshot leaves the book that holds the snapshot's levels of positive size
\* only, the snapshot's id and LIVE, taken through the buffered updates with u above that
\* id in their arrival order
C24_SnapshotThenReplay ==
    [][call'.snapshots = call.snapshots + 1 =>
           \E snapshot \in BufferSnapshots :
               /\ snapshot.lastUpdateId = call'.u
               /\ ob' = SeedFrom([ob EXCEPT !.bids = PositiveLevels(snapshot.bids),
                                            !.asks = PositiveLevels(snapshot.asks),
                                            !.lastUpdateId = snapshot.lastUpdateId,
                                            !.uiState = "LIVE",
                                            !.buffer = << >>],
                                 ob.buffer, snapshot.lastUpdateId, 1)]_vars

\* A snapshot has just been applied and two buffered updates were applied after it, the
\* second one deleting the bid level
C24_Witness ==
    /\ call.branch = "snapshot"
    /\ ob.stats.applied = 2
    /\ ob.lastUpdateId = MAX_GAP_TOLERANCE + 3
    /\ ob.bids = EmptyMap
    /\ ob.uiState = "LIVE"

\* ---- The open orders of one actor under ORDER_UPDATE and OPEN_ORDERS_SNAPSHOT ----

\* event.status === 'FILLED' || 'CANCELED' || 'REJECTED' || 'EXPIRED'
Terminal(status) == status \in {"FILLED", "CANCELED", "REJECTED", "EXPIRED"}

\* ORDER_UPDATE events of two orders, with the statuses the user stream reports
OrderEvents ==
    [orderId : {"o1", "o2"}, reduceOnly : BOOLEAN,
     status : {"NEW", "PARTIALLY_FILLED", "FILLED", "CANCELED", "REJECTED", "EXPIRED"}]

\* event.orders of OPEN_ORDERS_SNAPSHOT: orders that are open, one per orderId
OrderSnapshots ==
    {orders \in SUBSET {o \in OrderEvents : ~Terminal(o.status)} :
        \A o, q \in orders : o.orderId = q.orderId => o = q}

NextOrders ==
    \/ \E order \in OrderEvents : OrderUpdate(order, Terminal(order.status))
    \/ \E orders \in OrderSnapshots : OpenOrdersSnapshot(orders)

SpecOrders == InitState /\ [][NextOrders]_vars

MaxLogItems == 3
MaxBackpressure == 2

\* config.queueLimit of the model
QueueLimit == 2

\* LogKind of the items: each kind has its own stream
LogKinds == {"metrics", "execution"}

\* new OrchestratorLogger(config) with the streams of the kinds: queue holds the items
\* (numbered in the order of their enqueue), immediates counts the scheduled
\* setImmediate(flush) callbacks, written[k] is what stream k was given, needDrain[k]
\* holds from a write that returned false to the stream's 'drain', listeners[k] counts
\* the once('drain') listeners
InitLogQueue ==
    /\ logq = [queue |-> << >>, flushing |-> FALSE, immediates |-> 0,
               dropCount |-> 0, dropWindowCount |-> 0, items |-> 0, dropped |-> {},
               written |-> [k \in LogKinds |-> << >>],
               needDrain |-> [k \in LogKinds |-> FALSE],
               listeners |-> [k \in LogKinds |-> 0],
               backpressure |-> 0]
    /\ NotLogQueueIdle

\* Mutant of enqueueLog: the queue is not bounded
enqueueLogUnbounded(lg, kind) ==
    LET item == [id |-> lg.items + 1, kind |-> kind]
    IN [lg EXCEPT !.items = @ + 1, !.queue = Append(@, item), !.flushing = TRUE,
                  !.immediates = IF lg.flushing THEN @ ELSE @ + 1]

\* OrchestratorLogger.enqueue(item)
enqueueLog(lg, kind) ==
    LET item == [id |-> lg.items + 1, kind |-> kind]
    IN IF Len(lg.queue) >= QueueLimit
       THEN [lg EXCEPT !.items = @ + 1, !.dropped = @ \cup {item.id},
                       !.dropCount = @ + 1, !.dropWindowCount = @ + 1]
       ELSE [lg EXCEPT !.items = @ + 1, !.queue = Append(@, item), !.flushing = TRUE,
                       !.immediates = IF lg.flushing THEN @ ELSE @ + 1]

\* OrchestratorLogger.flush(): stream.write takes the line whatever it returns; it
\* returns false while the stream waits for 'drain', and otherwise for the first write
\* after okWrites writes
RECURSIVE flushLog(_, _)
flushLog(lg, okWrites) ==
    IF lg.queue = << >> THEN [lg EXCEPT !.flushing = FALSE]
    ELSE LET item == Head(lg.queue)
             ok == ~lg.needDrain[item.kind] /\ okWrites > 0
             wrote == [lg EXCEPT !.queue = Tail(@),
                                 !.written[item.kind] = Append(@, item.id)]
             refused == [wrote EXCEPT !.needDrain[item.kind] = TRUE,
                                      !.backpressure = @ + 1]
         IN IF ok THEN flushLog(wrote, okWrites - 1)
            ELSE IF Len(wrote.queue) < QueueLimit
            THEN [refused EXCEPT !.queue = <<item>> \o @,
                                 !.listeners[item.kind] = @ + 1,
                                 !.flushing = FALSE]
            ELSE flushLog(refused, 0)

\* logMetrics / logDecision / logExecution
LogEnqueue(kind) ==
    /\ logq.items < MaxLogItems
    /\ logq' = enqueueLog(logq, kind)
    /\ UNCHANGED notLogQueueVars

\* A write that returns false is possible: the stream is waiting already, or the
\* model's budget of refusals allows another
CanFlushLog(lg, okWrites) ==
    \/ okWrites >= Len(lg.queue)
    \/ lg.backpressure < MaxBackpressure

\* setImmediate(() => this.flush())
LogFlush(okWrites) ==
    /\ logq.immediates > 0
    /\ CanFlushLog(logq, okWrites)
    /\ logq' = flushLog([logq EXCEPT !.immediates = @ - 1], okWrites)
    /\ UNCHANGED notLogQueueVars

\* n calls of flush, one per listener of the 'drain' event
RECURSIVE drainLog(_, _, _)
drainLog(lg, n, okWrites) ==
    IF n = 0 THEN lg ELSE drainLog(flushLog(lg, okWrites), n - 1, okWrites)

\* The 'drain' event of the stream of kind: stream.once('drain', () => this.flush())
StreamDrain(kind, okWrites) ==
    /\ logq.needDrain[kind]
    /\ CanFlushLog(logq, okWrites)
    /\ logq' = drainLog([logq EXCEPT !.needDrain[kind] = FALSE, !.listeners[kind] = 0],
                        logq.listeners[kind], okWrites)
    /\ UNCHANGED notLogQueueVars

NextLogQueue ==
    \/ \E kind \in LogKinds : LogEnqueue(kind)
    \/ \E okWrites \in 0..QueueLimit : LogFlush(okWrites)
    \/ \E kind \in LogKinds, okWrites \in 0..QueueLimit : StreamDrain(kind, okWrites)

SpecLogQueue == InitLogQueue /\ [][NextLogQueue]_vars

\* C32: the queue never holds more than queue_limit items; an enqueue on a full queue
\* leaves the queue unchanged and adds one to drop_total and to drop_window, and the
\* dropped item is neither queued nor written
C32_QueueLimit ==
    /\ [](/\ Len(logq.queue) <= QueueLimit
          /\ \A id \in logq.dropped :
                 /\ \A i \in DOMAIN logq.queue : logq.queue[i].id # id
                 /\ \A k \in LogKinds : \A i \in DOMAIN logq.written[k] :
                        logq.written[k][i] # id)
    /\ [][\A kind \in LogKinds :
              LogEnqueue(kind) /\ Len(logq.queue) >= QueueLimit =>
                  /\ logq'.queue = logq.queue
                  /\ logq'.dropCount = logq.dropCount + 1
                  /\ logq'.dropWindowCount = logq.dropWindowCount + 1
                  /\ logq'.dropped = logq.dropped \cup {logq.items + 1}]_vars

\* An item was dropped on a full queue
C32_Witness ==
    /\ logq.dropped # {}
    /\ Len(logq.queue) = QueueLimit
    /\ logq.dropCount = 1 /\ logq.dropWindowCount = 1

\* C39: every stream is given each accepted item once and in the order of the enqueues,
\* also when a write signals backpressure and the item is put back
C39_ExactlyOnce ==
    \A k \in LogKinds : \A i, j \in DOMAIN logq.written[k] :
        i < j => logq.written[k][i] < logq.written[k][j]

\* ---- The actor with its scheduled steps taken eventually ----

\* Node runs every scheduled setImmediate callback and every continuation of a settled
\* promise, and every connector call settles (it resolves or it throws)
ActorFairness ==
    /\ WF_vars(\E calls \in 0..MaxActions : RunImmediate(calls))
    /\ WF_vars(\E self \in DOMAIN runs, calls \in 0..MaxActions : Resume(self, calls))
    /\ WF_vars(\E self \in DOMAIN runs : ConnectorResolve(self) \/ ConnectorThrow(self))
    /\ WF_vars(\E self \in DOMAIN runs : CatchHandler(self))

SpecActorLive == InitActor /\ [][NextActor]_vars /\ ActorFairness

\* C33: whatever the connector calls do, every envelope in the actor's queue is
\* eventually processed and the actor returns to idle (isIdle() holds)
C33_NoStall == (queue # << >>) ~> (~processing /\ queue = << >>)

(***************************************************************************)
(* Replay: merging the two logs and feeding the orchestrator               *)
(***************************************************************************)

MaxFileLines == 2

\* Event times of the log lines
LogTimes == {1, 2}

\* A gate result; source tells the logged one from one that runGate has just computed
Gate(passed, source) == [k |-> "gate", passed |-> passed, source |-> source]

\* Lines of the metrics file: envelopes as logMetrics wrote them (metrics and gate),
\* lines without gate, and raw metrics inputs (neither metrics nor gate)
MetricsLines ==
    {[canonical_time_ms |-> t, hasMetrics |-> shape[1], gate |-> shape[2]] :
        t \in LogTimes,
        shape \in {<<TRUE, Gate(TRUE, "log")>>, <<TRUE, Gate(FALSE, "log")>>,
                   <<TRUE, Null>>, <<FALSE, Null>>}}

\* Lines of the execution file; valid: the event has a type and a symbol
ExecutionLines == [event_time_ms : LogTimes, valid : BOOLEAN]

\* The sequences over S of length at most n
RECURSIVE SeqsUpTo(_, _)
SeqsUpTo(S, n) ==
    IF n = 0 THEN {<< >>}
    ELSE LET shorter == SeqsUpTo(S, n - 1)
         IN shorter \cup {Append(s, x) : s \in {q \in shorter : Len(q) = n - 1}, x \in S}

\* readJsonl of both files; nothing merged or fed yet
InitMerge ==
    /\ \E metrics \in SeqsUpTo(MetricsLines, MaxFileLines),
          execution \in SeqsUpTo(ExecutionLines, MaxFileLines) :
           replay = [metrics |-> metrics, execution |-> execution, pc |-> "read",
                     merged |-> << >>, position |-> 1, fed |-> << >>]
    /\ NotReplayIdle

\* Mutant of insertByTime: an item goes before the items of its own time
insertBeforeEqual(sorted, item) ==
    LET before == SelectSeq(sorted, LAMBDA x : x.event_time_ms < item.event_time_ms)
        after == SelectSeq(sorted, LAMBDA x : x.event_time_ms >= item.event_time_ms)
    IN before \o <<item>> \o after

\* One insertion of the stable sort: an item goes after the items that are not later
insertByTime(sorted, item) ==
    LET before == SelectSeq(sorted, LAMBDA x : x.event_time_ms <= item.event_time_ms)
        after == SelectSeq(sorted, LAMBDA x : x.event_time_ms > item.event_time_ms)
    IN before \o <<item>> \o after

\* items.sort((a, b) => a.event_time_ms - b.event_time_ms): Array.prototype.sort is
\* stable, the result is that of inserting the items in their order
RECURSIVE sortByEventTime(_)
sortByEventTime(items) ==
    IF items = << >> THEN << >>
    ELSE insertByTime(sortByEventTime(SubSeq(items, 1, Len(items) - 1)), items[Len(items)])

\* [...metrics.map(...), ...execution.map(...)]; index is the line's place in its file
mapLogs(metrics, execution) ==
    [i \in 1..Len(metrics) |->
        [kind |-> "metrics", event_time_ms |-> metrics[i].canonical_time_ms, index |-> i,
         payload |-> metrics[i]]]
    \o [i \in 1..Len(execution) |->
           [kind |-> "execution", event_time_ms |-> execution[i].event_time_ms, index |-> i,
            payload |-> execution[i]]]

\* const merged = [...].sort(...)
MergeLogs ==
    /\ replay.pc = "read"
    /\ replay' = [replay EXCEPT !.pc = "feed",
                     !.merged = sortByEventTime(mapLogs(replay.metrics, replay.execution))]
    /\ UNCHANGED notReplayVars

\* Mutant of ingestLoggedLine: the logged envelope is logged again
ingestLoggedLineLogs(item) ==
    <<[call |-> "ingestLoggedMetrics", kind |-> item.kind, index |-> item.index,
       gate |-> item.payload.gate, logMetrics |-> TRUE]>>

\* Orchestrator.ingestLoggedMetrics -> enqueueMetrics(..., logLine.gate, false)
ingestLoggedLine(item) ==
    <<[call |-> "ingestLoggedMetrics", kind |-> item.kind, index |-> item.index,
       gate |-> item.payload.gate, logMetrics |-> FALSE]>>

\* Orchestrator.ingest -> runGate, enqueueMetrics(..., gate, true); passed is what
\* runGate answers
ingestLine(item, passed) ==
    <<[call |-> "ingest", kind |-> item.kind, index |-> item.index,
       gate |-> Gate(passed, "runGate"), logMetrics |-> TRUE]>>

\* Orchestrator.ingestExecutionReplay, for an event with a type and a symbol
ingestExecutionLine(item) ==
    IF item.payload.valid
    THEN <<[call |-> "ingestExecutionReplay", kind |-> item.kind, index |-> item.index,
            gate |-> Null, logMetrics |-> FALSE]>>
    ELSE << >>

\* The body of `for (const item of merged)` for the next item
FeedItem(passed) ==
    /\ replay.pc = "feed"
    /\ replay.position <= Len(replay.merged)
    /\ LET item == replay.merged[replay.position]
           calls == IF item.kind = "metrics"
                    THEN IF item.payload.hasMetrics /\ item.payload.gate # Null
                         THEN ingestLoggedLine(item)
                         ELSE ingestLine(item, passed)
                    ELSE ingestExecutionLine(item)
       IN replay' = [replay EXCEPT !.position = @ + 1, !.fed = @ \o calls]
    /\ UNCHANGED notReplayVars

NextMerge ==
    \/ MergeLogs
    \/ \E passed \in BOOLEAN : FeedItem(passed)

SpecMerge == InitMerge /\ [][NextMerge]_vars

\* The place of a line of a file in the merged list
PlaceOf(kind, index) ==
    CHOOSE j \in DOMAIN replay.merged :
        replay.merged[j].kind = kind /\ replay.merged[j].index = index

\* C34: the merged list holds every line of both files once, keyed by canonical_time_ms
\* (metrics) and event_time_ms (execution), in non-decreasing time; lines of equal time
\* keep their file order and a metrics line precedes an execution line; the
\* orchestrator is fed in that order
C34_StableMerge ==
    replay.pc = "feed" =>
        LET merged == replay.merged
            ItemsOf(kind) == {j \in DOMAIN merged : merged[j].kind = kind}
        IN /\ Len(merged) = Len(replay.metrics) + Len(replay.execution)
           /\ {merged[j].index : j \in ItemsOf("metrics")} = DOMAIN replay.metrics
           /\ {merged[j].index : j \in ItemsOf("execution")} = DOMAIN replay.execution
           /\ \A j \in ItemsOf("metrics") :
                  /\ merged[j].payload = replay.metrics[merged[j].index]
                  /\ merged[j].event_time_ms = merged[j].payload.canonical_time_ms
           /\ \A j \in ItemsOf("execution") :
                  /\ merged[j].payload = replay.execution[merged[j].index]
                  /\ merged[j].event_time_ms = merged[j].payload.event_time_ms
           /\ \A i, j \in DOMAIN merged :
                  i < j =>
                      /\ merged[i].event_time_ms <= merged[j].event_time_ms
                      /\ merged[i].event_time_ms = merged[j].event_time_ms =>
                             /\ merged[i].kind = merged[j].kind =>
                                    merged[i].index < merged[j].index
                             /\ ~(merged[i].kind = "execution" /\ merged[j].kind = "metrics")
           /\ \A a, b \in DOMAIN replay.fed :
                  a < b => PlaceOf(replay.fed[a].kind, replay.fed[a].index)
                               < PlaceOf(replay.fed[b].kind, replay.fed[b].index)

\* Both files were fed: the second metrics line (time 1) first, then the two execution
\* lines of time 1 in file order, then the first metrics line (time 2)
C34_Witness ==
    /\ Len(replay.fed) = 4
    /\ replay.metrics[1].canonical_time_ms = 2
    /\ [i \in 1..4 |-> <<replay.fed[i].kind, replay.fed[i].index>>]
           = <<(<<"metrics", 2>>), (<<"execution", 1>>), (<<"execution", 2>>),
               (<<"metrics", 1>>)>>

\* C35: a metrics line with metrics and gate is fed through ingestLoggedMetrics with the
\* logged gate and without a metrics line for the logger; any other metrics line goes
\* through ingest, which runs the gate and logs
C35_LoggedGate ==
    \A a \in DOMAIN replay.fed :
        replay.fed[a].kind = "metrics" =>
            LET line == replay.metrics[replay.fed[a].index]
            IN IF line.hasMetrics /\ line.gate # Null
               THEN /\ replay.fed[a].call = "ingestLoggedMetrics"
                    /\ replay.fed[a].gate = line.gate
                    /\ replay.fed[a].gate.source = "log"
                    /\ ~replay.fed[a].logMetrics
               ELSE /\ replay.fed[a].call = "ingest"
                    /\ replay.fed[a].gate.source = "runGate"
                    /\ replay.fed[a].logMetrics

\* A logged envelope whose gate failed was fed with that gate, and a line without gate
\* went through ingest, where the gate passed
C35_Witness ==
    /\ Len(replay.fed) = 2
    /\ replay.fed[1].call = "ingestLoggedMetrics" /\ ~replay.fed[1].gate.passed
    /\ replay.fed[2].call = "ingest" /\ replay.fed[2].gate.passed

====
